---- MODULE Spec2Model ----
(***************************************************************************)
(* A model of the batch orchestrator of GamesMaster: ExcelParser           *)
(* (src/src/excel_parser.py), GameMatchResultSet (src/src/game_match.py)   *)
(* and ClientBase.try_match_game (src/src/clients/ClientBase.py).          *)
(*                                                                         *)
(* A behaviour is a sequence of program runs over one output directory.    *)
(* In a run, match_games polls one asyncio task per enabled source; a task *)
(* is one call of __get_matches_for_source for one batch.  asyncio is      *)
(* cooperative, so a task runs atomically from one await to the next: the  *)
(* only await of a task is client.try_match_game, the only await of        *)
(* match_games is asyncio.sleep(0).                                        *)
(*                                                                         *)
(* A ledger row is represented by its hash_id; rows whose hashed fields    *)
(* agree have the same hash_id.  An output file is represented by the set  *)
(* of hash_ids get_all_processed_hash_ids reads from it.                   *)
(*                                                                         *)
(* The HTTP layer of a client (RateLimiter, ExponentialBackoff and         *)
(* ClientBase.request of src/src/clients/ClientBase.py) is modelled next   *)
(* to it.  Time is counted in ticks of 1/TicksPerSecond seconds; a         *)
(* coroutine that sleeps wakes at its deadline or later.                   *)
(***************************************************************************)
EXTENDS Integers, Sequences, FiniteSets, TLC

\* ---------------------------------------------------------------- bounds
NumRows == 4
BatchSize == 3
MaxRuns == 2
\* the ledger and the batch size of the runs of two sources
PairRows == 3
PairBatch == 2
\* the clock of the rate limiter: ticks per second, the last tick, and the
\* number of RateLimiter.request calls of a behaviour
TicksPerSecond == 2
MaxTime == 6
MaxRequests == 3
\* the number of ClientBase.request calls of a behaviour
MaxCalls == 2

\* __main__ calls match_games(..., offset=0, ..., save_output=True)
save_output == TRUE

Sources == {"HLTB", "IGDB"}

Hashes == 1..(NumRows + 1)

\* The sheets a run may load.  LedgerDup has two rows that agree on every
\* hashed field (the hash_id leaves out the notes and the owned format);
\* LedgerA is the same sheet with the second of them changed; LedgerB is
\* LedgerA with a new row inserted after the first row and the last dropped.
LedgerDup == [n \in 1..NumRows |-> IF n <= 2 THEN 1 ELSE n]
LedgerA == [n \in 1..NumRows |-> n]
LedgerB == [n \in 1..NumRows |-> IF n = 1 THEN 1 ELSE IF n = 2 THEN NumRows + 1 ELSE n - 1]
LedgerPair == [n \in 1..PairRows |-> n]

\* the sheet as the user may have edited it between two runs
Edits(ledger) ==
    IF ledger = LedgerDup THEN {LedgerDup, LedgerA}
    ELSE IF ledger = LedgerA THEN {LedgerA, LedgerB}
    ELSE {ledger}

\* What one call of try_match_game can do:
\*   match   (True, matches, None), a match is accepted in match_games
\*   nomatch (True, matches, None), no match is accepted in match_games
\*   skip    (True, None, None)     should_skip
\*   error   (False, None, exc)     any Exception, ResponseNotOkError included
\*   stop    raises ImmediatelyStopStatusError
\*   crash   raises NotImplementedError
\* how match_game (or should_skip) ends for a row: with candidates, with
\* none, skipped, or by an exception
MatchGameEnds == {"match", "nomatch", "skip", "Exception", "ResponseNotOkError",
                  "ImmediatelyStopStatusError", "NotImplementedError"}

\* a try_match_game that turns every failure into an immediate stop
TryMatchGameStops(end) == "stop"

\* ClientBase.try_match_game: what the task gets for the row
try_match_game(end) ==
    CASE end = "NotImplementedError" -> "crash"
      [] end = "ImmediatelyStopStatusError" -> "stop"
      [] end \in {"Exception", "ResponseNotOkError"} -> "error"
      [] OTHER -> end

Outcomes == {try_match_game(end) : end \in MatchGameEnds}

OutputTypes == {"matches", "errors", "skipped", "no-matches"}

VARIABLES
    games,              \* ExcelLoader.games of this run: the rows' hash_ids
    enabled_clients,    \* ExcelParser.enabled_clients
    batch_size,         \* match_games' batch_size
    outputs,            \* output/<source>/<type>-<min>-<max>.json
    resumable,          \* output/resumable/<source>-<min>-<max>-resumable.pkl
    processed,          \* __processed_matches_by_source_and_type
    running_clients,    \* keys of __running_clients
    tasks,              \* match_games' list of tasks, by task name
    task,               \* the coroutine of each source's task
    main,               \* match_games: running, returned, raised, cancelled
    run,                \* number of the run
    adapter,            \* what the source answers for a row, once asked
    interrupted,        \* history: the last cancellation of a task in its loop
    resumed,            \* history: the current task resumed a checkpoint
    stopped,            \* history: the run saw an immediate stop of the source
    utcnow,             \* datetime.utcnow(), in ticks
    settings,           \* RateLimiter.settings
    last_calls,         \* RateLimiter._last_calls
    calls,              \* the RateLimiter.request coroutine of each caller
    dispatches,         \* history: the func() calls of RateLimiter.request
    cached_responses,   \* ClientBase.__cached_responses
    immediately_stop_statuses,  \* ClientBase.__immediately_stop_statuses
    req,                \* the ClientBase.request coroutine
    net,                \* history: what the current request() call did
    succeeded,          \* history: the requests answered with status 200
    spoof_headers,      \* ClientBase.__spoof_headers
    cached_headers,     \* ClientBase.__cached_headers
    next_headers,       \* ClientBase.__next_headers, in ticks
    generations,        \* history: the times and results of Headers().generate()
    sent_headers,       \* history: the headers request() chose, and when
    game_matches,       \* the candidates match_game returned for a row
    gmr_matches,        \* GameMatchResult.matches of the row
    prompts,            \* history: the questions put to the user about the row
    decision,           \* match_games: the row's match, or none
    tried,              \* what try_match_game gave for the row
    excel_game,         \* MatchValidator: the ExcelGame of a row
    candidate,          \* MatchValidator: what a source says about a game
    validated           \* the value of the last MatchValidator call

parserVars == <<games, enabled_clients, batch_size, outputs, resumable, processed,
                running_clients, tasks, task, main, run, adapter, interrupted,
                resumed, stopped>>

limiterVars == <<utcnow, settings, last_calls, calls, dispatches>>

requestVars == <<cached_responses, immediately_stop_statuses, req, net, succeeded>>

headerVars == <<spoof_headers, cached_headers, next_headers, generations, sent_headers>>

selectVars == <<game_matches, gmr_matches, prompts, decision, tried>>

validatorVars == <<excel_game, candidate, validated>>

restVars == <<headerVars, selectVars, validatorVars>>

clientVars == <<limiterVars, requestVars, restVars>>

vars == <<parserVars, clientVars>>

\* ------------------------------------------------------------- helpers
Min(a, b) == IF a <= b THEN a ELSE b

Range(seq) == {seq[n] : n \in 1..Len(seq)}

\* Python's seq[a:b] for 0 <= a, positions counted from 0
PySlice(seq, a, b) == SubSeq(seq, a + 1, Min(b, Len(seq)))

\* writing and removing a file of a directory
WriteFile(dir, key, content) ==
    [k \in DOMAIN dir \cup {key} |-> IF k = key THEN content ELSE dir[k]]

RemoveFile(dir, key) == [k \in DOMAIN dir \ {key} |-> dir[k]]

NoFiles == [k \in {} |-> {}]

\* ------------------------------------------------ game_match.py
GameMatchResult(game, payload) == [game |-> game, payload |-> payload]

GameMatchResultSet(offset, size) ==
    [offset |-> offset, batch_size |-> size,
     _successes |-> {}, _errors |-> {}, _skipped |-> {}, _index |-> 0]

append(rs, gmr, match_type) ==
    [rs EXCEPT
        !._successes = IF match_type = "success"
                       THEN @ \cup {[idx |-> rs._index, gmr |-> gmr]} ELSE @,
        !._errors = IF match_type = "error"
                    THEN @ \cup {[idx |-> rs._index, gmr |-> gmr]} ELSE @,
        !._skipped = IF match_type = "skipped"
                     THEN @ \cup {[idx |-> rs._index, gmr |-> gmr]} ELSE @,
        !._index = @ + 1]

RECURSIVE extend(_, _, _)
extend(rs, gmrs, match_type) ==
    IF gmrs = <<>> THEN rs
    ELSE extend(append(rs, Head(gmrs), match_type), Tail(gmrs), match_type)

\* len(result_set)
ResultSetLen(rs) == Cardinality(rs._successes) + Cardinality(rs._errors)

HashIds(entries) == {e.gmr.game : e \in entries}

\* ------------------------------------------------ excel_parser.py
get_all_processed_hash_ids(source, output_type) ==
    UNION {outputs[source][output_type][k] : k \in DOMAIN outputs[source][output_type]}

\* ExcelParser.__init__: the index of what earlier runs stored
LoadProcessed(source) ==
    [matches |-> get_all_processed_hash_ids(source, "matches")
                 \cup get_all_processed_hash_ids(source, "no-matches"),
     skipped |-> get_all_processed_hash_ids(source, "skipped"),
     errors |-> get_all_processed_hash_ids(source, "errors")]

EndRow(offset, size) == Min(offset + size - 1, Len(games))

\* the name of a batch's files: <min_rows>-<max_rows>
FileKey(offset, size) == <<offset, EndRow(offset, size)>>

\* lines 249-270: the batch has a matches file and every row is indexed
BatchAlreadyExists(source, offset) ==
    /\ FileKey(offset, batch_size) \in DOMAIN outputs[source]["matches"]
    /\ Range(PySlice(games, offset, offset + batch_size))
         \ (processed[source].matches \cup processed[source].skipped
              \cup processed[source].errors) = {}

\* lines 290-308
CacheResultHashes(cache_results) ==
    HashIds(cache_results._successes) \cup HashIds(cache_results._errors)
        \cup HashIds(cache_results._skipped)

NewProcessedCount(cache_results) ==
    ResultSetLen(cache_results) + Cardinality(cache_results._skipped)

CanResume(cache_results, original_offset) ==
    CacheResultHashes(cache_results)
        \ Range(PySlice(games, original_offset,
                        original_offset + NewProcessedCount(cache_results))) = {}

\* lines 368-397: the kind of stored result a row is found under
ExistingType(source, hash_id) ==
    IF hash_id \in processed[source].matches THEN "matches"
    ELSE IF hash_id \in processed[source].skipped THEN "skipped"
    ELSE "none"

\* lines 367-412: the loop from row i of games[offset:batch_stop] up to the
\* first row that needs the adapter (the task then awaits it) or to the end

RECURSIVE RunLoop(_, _, _, _, _)
RunLoop(source, rs, offset, batch_stop, i) ==
    LET rows == PySlice(games, offset, batch_stop) IN
    IF i >= Len(rows) THEN [state |-> "done", results |-> rs, i |-> i]
    ELSE IF ExistingType(source, rows[i + 1]) = "none"
    THEN [state |-> "awaiting", results |-> rs, i |-> i]
    ELSE RunLoop(source,
                 append(rs, GameMatchResult(rows[i + 1], "existing"),
                        ExistingType(source, rows[i + 1])),
                 offset, batch_stop, i + 1)

\* lines 429-449: the row's outcome is recorded
RecordOutcome(rs, game, outcome) ==
    CASE outcome \in {"match", "nomatch"} ->
            append(rs, GameMatchResult(game, outcome), "success")
      [] outcome = "error" -> append(rs, GameMatchResult(game, outcome), "error")
      [] outcome = "skip" -> append(rs, GameMatchResult(game, outcome), "skipped")

\* lines 420-427: the rows recorded as errors on an immediate stop
StopRows(i) == PySlice(games, i, Len(games))

RecordStop(rs, i) ==
    extend(rs, [n \in 1..Len(StopRows(i)) |-> GameMatchResult(StopRows(i)[n], "stop")],
           "error")

IdleTask == [state |-> "none", offset |-> 0, original_offset |-> 0, i |-> 0,
             results |-> GameMatchResultSet(0, 0), exc |-> "none"]

\* asyncio.create_task(self.__get_matches_for_source(source, offset, batch_size))
NewTask(offset, size) ==
    [state |-> "pending", offset |-> offset, original_offset |-> offset, i |-> 0,
     results |-> GameMatchResultSet(offset, size), exc |-> "none"]

\* a checkpoint file: a pickled GameMatchResultSet, or one cut short
Pickle(rs) == [readable |-> TRUE, value |-> rs]

Truncated == [readable |-> FALSE, value |-> GameMatchResultSet(0, 0)]

\* a handler that re-raises without writing the checkpoint
CheckpointDropped(source, t) == resumable[source]

\* lines 485-491: except asyncio.CancelledError
Checkpoint(source, t) ==
    WriteFile(resumable[source], FileKey(t.original_offset, batch_size), Pickle(t.results))

\* what lines 284-347 found and decided, and where the loop was entered
NoResume == [found |-> FALSE, readable |-> FALSE, can_resume |-> FALSE,
             removed |-> FALSE, cache |-> {}, expected |-> {},
             original_offset |-> 0, offset |-> 0, count |-> 0]

Failed(t, exc) == [t EXCEPT !.state = "failed", !.exc = exc]

\* lines 220-412: the task from its start to its first await.  `constructs`
\* says whether _ALL_CLIENTS[source](...) returns a client or raises.
\* A checkpoint that cannot be loaded ends the task: pickle.load raises
\* EOFError, after whose handler line 323 reads the unassigned
\* cache_result_hashes (UnboundLocalError), or it raises another error no
\* handler catches; line 347 is not reached.
StartTask(source, constructs) ==
    LET t == task[source]
        key == FileKey(t.offset, batch_size)
        present == key \in DOMAIN resumable[source]
        file == resumable[source][key]
        can_resume == present /\ file.readable /\ CanResume(file.value, t.original_offset)
        results == IF can_resume THEN file.value ELSE t.results
        offset == IF can_resume
                  THEN t.original_offset + NewProcessedCount(file.value)
                  ELSE t.offset
        loop == RunLoop(source, results, offset, t.offset + batch_size, 0)
    IN  IF source \notin running_clients /\ ~constructs
        THEN [task |-> Failed(t, "client"),
              running |-> running_clients,
              files |-> resumable[source], resumed |-> NoResume]
        ELSE IF t.offset > Len(games)
        THEN [task |-> Failed(t, "IndexError"),
              running |-> running_clients \cup {source},
              files |-> resumable[source], resumed |-> NoResume]
        ELSE IF BatchAlreadyExists(source, t.offset)
        THEN [task |-> [t EXCEPT !.state = "done"],
              running |-> running_clients \cup {source},
              files |-> resumable[source], resumed |-> NoResume]
        ELSE IF present /\ ~file.readable
        THEN [task |-> Failed(t, "checkpoint"),
              running |-> running_clients \cup {source},
              files |-> resumable[source],
              resumed |-> [NoResume EXCEPT !.found = TRUE,
                                           !.original_offset = t.original_offset]]
        ELSE [task |-> [t EXCEPT !.state = loop.state, !.offset = offset,
                                 !.i = loop.i, !.results = loop.results],
              running |-> running_clients \cup {source},
              files |-> IF present THEN RemoveFile(resumable[source], key)
                        ELSE resumable[source],
              resumed |->
                 IF present
                 THEN [found |-> TRUE, readable |-> TRUE, can_resume |-> can_resume,
                       removed |-> key \notin DOMAIN RemoveFile(resumable[source], key),
                       original_offset |-> t.original_offset,
                       cache |-> CacheResultHashes(file.value),
                       expected |-> Range(PySlice(games, t.original_offset,
                                        t.original_offset + NewProcessedCount(file.value))),
                       offset |-> offset, count |-> results._index]
                 ELSE [NoResume EXCEPT !.offset = offset,
                                       !.original_offset = t.original_offset]]

\* the row the task awaits try_match_game for
AwaitedRow(t) == PySlice(games, t.offset, t.original_offset + batch_size)[t.i + 1]

\* a loop that goes on to the next row without recording the outcome
ResumeTaskUnrecorded(source, outcome) ==
    LET t == task[source]
        loop == RunLoop(source, t.results, t.offset, t.original_offset + batch_size,
                        t.i + 1)
    IN [t EXCEPT !.state = loop.state, !.i = loop.i, !.results = loop.results]

\* lines 414-449: try_match_game returns or raises, and the loop goes on to
\* the next await or to the end of the batch
ResumeTask(source, outcome) ==
    LET t == task[source] IN
    IF outcome = "crash" THEN Failed(t, "NotImplementedError")
    ELSE IF outcome = "stop"
    THEN [t EXCEPT !.state = "done", !.results = RecordStop(t.results, t.i)]
    ELSE LET loop == RunLoop(source, RecordOutcome(t.results, AwaitedRow(t), outcome),
                             t.offset, t.original_offset + batch_size, t.i + 1)
         IN [t EXCEPT !.state = loop.state, !.i = loop.i, !.results = loop.results]

\* ------------------------------------------------ match_games
\* lines 700-782: the files written for a finished batch
BatchResults(rs) == {e.gmr.game : e \in {x \in rs._successes : x.gmr.payload = "match"}}

NoMatches(rs) == {e.gmr.game : e \in {x \in rs._successes : x.gmr.payload # "match"}}

WriteIfAny(dir, key, hash_ids) ==
    IF hash_ids # {} /\ save_output THEN WriteFile(dir, key, hash_ids) ELSE dir

WriteOutputs(out, rs) ==
    LET key == FileKey(rs.offset, rs.batch_size) IN
    [out EXCEPT !["matches"] = WriteIfAny(@, key, BatchResults(rs)),
                !["errors"] = WriteIfAny(@, key, HashIds(rs._errors)),
                !["skipped"] = WriteIfAny(@, key, HashIds(rs._skipped)),
                !["no-matches"] = WriteIfAny(@, key, NoMatches(rs))]

\* a match_games that leaves a handled task in its list
KeepAt(seq, n) == seq

\* tasks.remove(task) for the task at position n
RemoveAt(seq, n) == SubSeq(seq, 1, n - 1) \o SubSeq(seq, n + 1, Len(seq))

\* a match_games that never goes on to a source's next batch
NoNextBatch(rs) == FALSE

\* lines 787-799: the next batch's task, or the source's end
HasNextBatch(rs) == rs.offset + rs.batch_size < Len(games)

\* lines 682-799: `for task in tasks` from position n on.  The list is changed
\* while it is iterated: after a removal the iterator moves on by one.

RECURSIVE PollLoop(_, _)
PollLoop(n, st) ==
    IF n > Len(st.tasks) THEN st
    ELSE LET source == st.tasks[n]
             t == st.task[source]
         IN  IF t.state = "failed"
             THEN IF source \notin st.running_clients
                  THEN \* del self.__running_clients[source] raises KeyError
                       [st EXCEPT !.tasks = RemoveAt(@, n), !.main = "raised",
                                  !.task[source].state = "removed"]
                  ELSE PollLoop(n + 1,
                         [st EXCEPT !.tasks = RemoveAt(@, n),
                                    !.task[source].state = "removed",
                                    !.running_clients = @ \ {source}])
             ELSE IF t.state = "done"
             THEN PollLoop(n + 1,
                    [st EXCEPT
                       !.outputs[source] = WriteOutputs(@, t.results),
                       !.tasks = IF HasNextBatch(t.results)
                                 THEN Append(RemoveAt(@, n), source)
                                 ELSE RemoveAt(@, n),
                       !.task[source] =
                           IF HasNextBatch(t.results)
                           THEN NewTask(t.results.offset + t.results.batch_size,
                                        t.results.batch_size)
                           ELSE [t EXCEPT !.state = "stored"],
                       !.running_clients = IF HasNextBatch(t.results) THEN @
                                           ELSE @ \ {source}])
             ELSE PollLoop(n + 1, st)

\* ------------------------------------------------ clients/ClientBase.py
\* dict[key] = value
DictSet(dict, key, value) ==
    [k \in DOMAIN dict \cup {key} |-> IF k = key THEN value ELSE dict[k]]

EmptyDict == [k \in {} |-> 0]

\* Optional[...] = None
None == <<>>

\* lines 49-61: RateLimit.__init__
RateLimit(max_req, per, rate_limit_per_route, range_req) ==
    [max_req |-> max_req, per |-> per,
     rate_limit_per_route |-> rate_limit_per_route, range_req |-> range_req]

\* lines 128-141: the seconds of each DatePart
SecondsPer(per) ==
    CASE per = "SECOND" -> 1
      [] per = "MINUTE" -> 60
      [] per = "HOUR" -> 3600
      [] per = "DAY" -> 86400
      [] per = "WEEK" -> 604800
      [] per = "MONTH" -> 2628000
      [] per = "YEAR" -> 31540000

\* lines 119-141: the values seconds_between_requests can have, in ticks;
\* with range_req the rate is drawn anew at every evaluation
seconds_between_requests ==
    LET maxes == IF settings.range_req = None THEN {settings.max_req}
                 ELSE settings.range_req[1]..settings.range_req[2]
    IN {(SecondsPer(settings.per) * TicksPerSecond) \div m : m \in maxes}

\* random.random(), in ticks
Jitter == 0..(TicksPerSecond - 1)

\* a limiter that lets every call through at once
NextCallNow(key, now) == {now}

\* a limiter that spaces a call from the last call under any key
NextCallAnyKey(key, now) ==
    IF DOMAIN last_calls = {} THEN {now}
    ELSE {last_calls[k] + sp + j :
            k \in DOMAIN last_calls, sp \in seconds_between_requests, j \in Jitter}

\* lines 143-149: the values next_call(key, now) can have
next_call(key, now) ==
    IF key \notin DOMAIN last_calls THEN {now}
    ELSE {last_calls[key] + sp + j : sp \in seconds_between_requests, j \in Jitter}

Urls == {[netloc |-> "a", path |-> "x"], [netloc |-> "a", path |-> "y"]}

\* lines 154-158
LimiterKey(url) ==
    IF ~settings.rate_limit_per_route THEN url.netloc ELSE url.path

Callers == {"c1", "c2"}

IdleCall == [pc |-> "idle", key |-> "", next_call |-> 0]

\* the rates whose spacing is a whole number of ticks
Rates == {m \in 1..TicksPerSecond : TicksPerSecond % m = 0}

RateLimits ==
    {RateLimit(m, "SECOND", r, rr) :
        m \in Rates, r \in BOOLEAN, rr \in {None, <<1, TicksPerSecond>>}}

\* a rate limiter nobody uses
LimiterIdle ==
    /\ utcnow = 0
    /\ settings = RateLimit(1, "SECOND", FALSE, None)
    /\ last_calls = EmptyDict
    /\ calls = [c \in {} |-> IdleCall]
    /\ dispatches = <<>>

\* lines 89-95: the defaults of ExponentialBackoff.__init__
initial_backoff == 2
exponent == 2
max_backoffs == 3

RECURSIVE Pow(_, _)
Pow(a, n) == IF n = 0 THEN 1 ELSE a * Pow(a, n - 1)

\* line 280: backoff = ExponentialBackoff()
ExponentialBackoff ==
    [backoff_seconds |-> initial_backoff, exponent |-> exponent,
     max_backoffs |-> max_backoffs, _backoffs |-> 0]

\* a backoff that absorbs one failure more than max_backoffs
BackoffOneMore(b) ==
    IF b._backoffs > b.max_backoffs
    THEN [raised |-> TRUE, slept |-> 0, b |-> b]
    ELSE [raised |-> FALSE, slept |-> b.backoff_seconds,
          b |-> [b EXCEPT !.backoff_seconds = Pow(@, b.exponent),
                          !._backoffs = @ + 1]]

\* a backoff whose delay is multiplied by the exponent
BackoffMultiplied(b) ==
    IF b._backoffs + 1 > b.max_backoffs
    THEN [raised |-> TRUE, slept |-> 0, b |-> b]
    ELSE [raised |-> FALSE, slept |-> b.backoff_seconds,
          b |-> [b EXCEPT !.backoff_seconds = @ * b.exponent,
                          !._backoffs = @ + 1]]

\* lines 97-108: backoff() raises, or sleeps backoff_seconds (plus
\* random.random()) and leaves the object as `b`
backoff(b) ==
    IF b._backoffs + 1 > b.max_backoffs
    THEN [raised |-> TRUE, slept |-> 0, b |-> b]
    ELSE [raised |-> FALSE, slept |-> b.backoff_seconds,
          b |-> [b EXCEPT !.backoff_seconds = Pow(@, b.exponent),
                          !._backoffs = @ + 1]]

\* a string is the sequence of its parts
Str(url) == <<url.netloc, "/", url.path>>

\* ",".join(values)

RECURSIVE Join(_)
Join(values) ==
    IF values = <<>> THEN <<>>
    ELSE IF Len(values) = 1 THEN <<values[1]>>
    ELSE <<values[1], ",">> \o Join(Tail(values))

\* params.values(): a dict keeps the order its items were inserted in
Values(params) == [n \in 1..Len(params) |-> params[n][2]]

\* lines 245-256; hash() of a string is taken to tell strings apart
hash_request(url, params, data) ==
    Str(url) \o (IF params # None THEN Join(Values(params)) ELSE <<>>)
             \o (IF data # None THEN data ELSE <<>>)

Methods == {"GET", "POST"}

\* params: None or the (name, value) items in insertion order
ParamDicts == {None, <<<<"k1", "1">>>>, <<<<"k1", "1">>, <<"k2", "2">>>>,
               <<<<"k2", "2">>, <<"k1", "1">>>>}

\* data: None or a string
Bodies == {None, <<"1">>}

\* the responses of the server
Statuses == {200, 201, 429, 500}

NetworkErrors == {"ClientError", "TimeoutError"}

\* what a request asks the server, whatever the order of its params
Logical(r) == [url |-> r.url, params |-> Range(r.params), data |-> r.data]

\* the body of the server's answer to a request
Payload(r) == Logical(r)

Message(method, url, params, data) ==
    [method |-> method, url |-> url, params |-> params, data |-> data]

IdleReq == [pc |-> "idle", n |-> 0, msg |-> Message("GET", [netloc |-> "a", path |-> "x"],
                                                  None, None),
            req_hash |-> <<>>, backoff |-> ExponentialBackoff, status |-> 0,
            failure |-> "none", failed |-> {}, result |-> {}, exc |-> "none",
            repeat |-> FALSE]

Event(ev, secs, jitter, msg) == [ev |-> ev, secs |-> secs, jitter |-> jitter, msg |-> msg]

\* a client no request was made on
RequestIdle ==
    /\ cached_responses = EmptyDict
    /\ immediately_stop_statuses = {}
    /\ req = IdleReq
    /\ net = <<>>
    /\ succeeded = {}

\* line 181
SPOOF_HEADER_LIFETIME_MINUTES == 60

\* the lifetime in ticks
HeaderLifetime == SPOOF_HEADER_LIFETIME_MINUTES * 60 * TicksPerSecond

\* Headers().generate() with a random Referer: one of these bundles
Bundles == {"bundle1", "bundle2"}

\* lines 207-213: no spoofed headers were generated yet
HeadersIdle ==
    /\ spoof_headers = FALSE
    /\ cached_headers = "None"
    /\ next_headers = 0
    /\ generations = <<>>
    /\ sent_headers = <<>>

\* no row is being decided
\* a call that returned (success, game_matches, exc), None being the empty
\* set and a value the set that holds it
Gave(success, matches, exc) ==
    [raised |-> "none", value |-> {<<success, matches, exc>>}]

\* a call an exception escaped from
Escaped(exc) == [raised |-> exc, value |-> {}]

\* try_match_game was not called for the row
NotTried ==
    [called |-> FALSE, should_skip |-> "False", match_game |-> Escaped("none"),
     result |-> Escaped("none")]

SelectIdle ==
    /\ game_matches = <<>>
    /\ gmr_matches = <<>>
    /\ prompts = <<>>
    /\ decision = "none"
    /\ tried = NotTried

\* ExcelGame: title, platform and the other fields the validator reads
ExcelGame(title, platform, release_year, publisher, developer, franchise) ==
    [title |-> title, platform |-> platform, release_year |-> release_year,
     publisher |-> publisher, developer |-> developer, franchise |-> franchise]

\* the arguments of validate other than the game
Candidate(title, platforms, release_years, publishers, developers, franchises) ==
    [title |-> title, platforms |-> platforms, release_years |-> release_years,
     publishers |-> publishers, developers |-> developers,
     franchises |-> franchises]

NotValidated == [op |-> "none", raised |-> "none", value |-> {}]

\* no validator call was made
ValidatorIdle ==
    /\ excel_game = ExcelGame(<<>>, <<>>, 0, <<>>, <<>>, <<>>)
    /\ candidate = Candidate(<<>>, <<>>, <<>>, <<>>, <<>>, <<>>)
    /\ validated = NotValidated

RestIdle == HeadersIdle /\ SelectIdle /\ ValidatorIdle

\* a client nobody uses
ClientIdle == LimiterIdle /\ RequestIdle /\ RestIdle

\* ---------------------------------------------------------------- actions
NoAnswers == [s \in Sources |-> [h \in Hashes |-> "unknown"]]

NoInterrupt == [valid |-> FALSE, key |-> <<0, 0>>, k |-> 0]

InitWith(clients, ledgers, size) ==
    /\ games \in ledgers
    /\ enabled_clients = clients
    /\ batch_size = size
    /\ outputs = [s \in Sources |-> [ty \in OutputTypes |-> NoFiles]]
    /\ resumable = [s \in Sources |-> NoFiles]
    /\ processed = [s \in Sources |-> [matches |-> {}, skipped |-> {}, errors |-> {}]]
    /\ running_clients = {}
    /\ tasks \in {q \in [1..Cardinality(clients) -> clients] : Range(q) = clients}
    /\ task = [s \in Sources |-> IF s \in clients THEN NewTask(0, size) ELSE IdleTask]
    /\ main = "running"
    /\ run = 1
    /\ adapter = NoAnswers
    /\ interrupted = [s \in Sources |-> NoInterrupt]
    /\ resumed = [s \in Sources |-> NoResume]
    /\ stopped = [s \in Sources |-> FALSE]

Init == InitWith({"HLTB"}, {LedgerDup, LedgerA}, BatchSize) /\ ClientIdle

\* the event loop first runs a created task
TaskStart(source, constructs) ==
    /\ main = "running"
    /\ task[source].state = "pending"
    /\ LET r == StartTask(source, constructs) IN
        /\ task' = [task EXCEPT ![source] = r.task]
        /\ running_clients' = r.running
        /\ resumable' = [resumable EXCEPT ![source] = r.files]
        /\ resumed' = [resumed EXCEPT ![source] = r.resumed]
    /\ UNCHANGED <<games, enabled_clients, batch_size, outputs, processed, tasks, main, run,
                   adapter, interrupted, stopped>>
    /\ UNCHANGED clientVars

\* the awaited try_match_game ends; the source answers a row it was asked
\* before as it answered then
AdapterReturn(source, outcome) ==
    /\ main = "running"
    /\ task[source].state = "awaiting"
    /\ adapter[source][AwaitedRow(task[source])] \in {"unknown", outcome}
    /\ adapter' = [adapter EXCEPT ![source][AwaitedRow(task[source])] = outcome]
    /\ task' = [task EXCEPT ![source] = ResumeTask(source, outcome)]
    /\ stopped' = [stopped EXCEPT ![source] = @ \/ outcome = "stop"]
    /\ UNCHANGED <<games, enabled_clients, batch_size, outputs, resumable, processed,
                   running_clients, tasks, main, run, interrupted, resumed>>
    /\ UNCHANGED clientVars

\* one round of `while any(tasks)`: asyncio.sleep(0), then the for loop
Poll ==
    /\ main = "running"
    /\ tasks # <<>>
    /\ LET st == PollLoop(1, [tasks |-> tasks, task |-> task, outputs |-> outputs,
                              running_clients |-> running_clients, main |-> main])
       IN  /\ tasks' = st.tasks
           /\ task' = st.task
           /\ outputs' = st.outputs
           /\ running_clients' = st.running_clients
           /\ main' = st.main
    /\ UNCHANGED <<games, enabled_clients, batch_size, resumable, processed, run, adapter,
                   interrupted, resumed, stopped>>
    /\ UNCHANGED clientVars

\* `while any(tasks)` ends: match_games returns
Return ==
    /\ main = "running"
    /\ tasks = <<>>
    /\ main' = "returned"
    /\ UNCHANGED <<games, enabled_clients, batch_size, outputs, resumable, processed,
                   running_clients, tasks, task, run, adapter, interrupted,
                   resumed, stopped>>
    /\ UNCHANGED clientVars

\* the run is cancelled: match_games gets CancelledError at asyncio.sleep(0)
Cancel ==
    /\ main = "running"
    /\ main' = "cancelled"
    /\ UNCHANGED <<games, enabled_clients, batch_size, outputs, resumable, processed,
                   running_clients, tasks, task, run, adapter, interrupted,
                   resumed, stopped>>
    /\ UNCHANGED clientVars

\* asyncio.run cancels the tasks left when match_games has ended: a task in
\* its loop gets CancelledError at its await, a task not yet run never runs
CancelTask(source) ==
    /\ main \in {"cancelled", "raised"}
    /\ task[source].state \in {"pending", "awaiting"}
    /\ task' = [task EXCEPT ![source].state = "cancelled"]
    /\ resumable' = [resumable EXCEPT ![source] =
                        IF task[source].state = "awaiting"
                        THEN Checkpoint(source, task[source]) ELSE @]
    /\ interrupted' = [interrupted EXCEPT ![source] =
                        IF task[source].state = "awaiting"
                        THEN [valid |-> TRUE,
                              key |-> FileKey(task[source].original_offset, batch_size),
                              k |-> task[source].offset - task[source].original_offset
                                      + task[source].i]
                        ELSE @]
    /\ UNCHANGED <<games, enabled_clients, batch_size, outputs, processed, running_clients,
                   tasks, main, run, adapter, resumed, stopped>>
    /\ UNCHANGED clientVars

RunEnded ==
    /\ main # "running"
    /\ \A s \in Sources : task[s].state \notin {"pending", "awaiting"}

CheckpointFiles == {f \in Sources \X ((0..NumRows) \X (0..NumRows)) :
                        f[2] \in DOMAIN resumable[f[1]]}

\* the program is run again over the same output directory: ExcelParser()
\* and match_games(offset=0) up to its first await.  The checkpoint files of
\* `cut` were cut short in the meantime.
Restart(ledger, order, cut) ==
    /\ RunEnded
    /\ run < MaxRuns
    /\ Range(order) = enabled_clients
    /\ games' = ledger
    /\ processed' = [s \in Sources |->
                        IF s \in enabled_clients THEN LoadProcessed(s) ELSE processed[s]]
    /\ running_clients' = {}
    /\ tasks' = order
    /\ task' = [s \in Sources |->
                  IF s \in enabled_clients THEN NewTask(0, batch_size) ELSE IdleTask]
    /\ main' = "running"
    /\ run' = run + 1
    /\ resumed' = [s \in Sources |-> NoResume]
    /\ stopped' = [s \in Sources |-> FALSE]
    /\ resumable' = [s \in Sources |->
                       [k \in DOMAIN resumable[s] |->
                           IF <<s, k>> \in cut THEN Truncated ELSE resumable[s][k]]]
    /\ interrupted' = [s \in Sources |->
                         IF \E f \in cut : f[1] = s THEN NoInterrupt ELSE interrupted[s]]
    /\ UNCHANGED <<enabled_clients, batch_size, outputs, adapter>>
    /\ UNCHANGED clientVars

Next ==
    \/ \E s \in Sources, c \in BOOLEAN : TaskStart(s, c)
    \/ \E s \in Sources, o \in Outcomes : AdapterReturn(s, o)
    \/ Poll
    \/ Return
    \/ Cancel
    \/ \E s \in Sources : CancelTask(s)
    \/ \E ledger \in Edits(games), cut \in SUBSET CheckpointFiles :
         \E order \in [1..Cardinality(enabled_clients) -> enabled_clients] :
            Restart(ledger, order, cut)

Spec == Init /\ [][Next]_vars

\* one run of two sources
InitPair == InitWith(Sources, {LedgerPair}, PairBatch) /\ ClientIdle

NextPair ==
    \/ \E s \in Sources, c \in BOOLEAN : TaskStart(s, c)
    \/ \E s \in Sources, o \in Outcomes : AdapterReturn(s, o)
    \/ Poll
    \/ Return
    \/ Cancel
    \/ \E s \in Sources : CancelTask(s)

SpecPair == InitPair /\ [][NextPair]_vars

\* the run of two sources on the asyncio event loop: a created task is run,
\* an awaited adapter call ends, and match_games, which gives way with
\* asyncio.sleep(0) in every round of its loop, gets its next round
SpecPairFair ==
    /\ SpecPair
    /\ \A s \in Sources : WF_vars(\E c \in BOOLEAN : TaskStart(s, c))
    /\ \A s \in Sources : WF_vars(\E o \in Outcomes : AdapterReturn(s, o))
    /\ WF_vars(Poll)
    /\ WF_vars(Return)

\* ------------------------------------------------ RateLimiter.request
\* lines 176-177: the last call is noted and func() is awaited
Dispatch(c, key) ==
    /\ last_calls' = DictSet(last_calls, key, utcnow)
    /\ dispatches' = Append(dispatches, [key |-> key, at |-> utcnow])
    /\ calls' = [calls EXCEPT ![c] = [pc |-> "func", key |-> key, next_call |-> utcnow]]

\* lines 151-177 up to the first await: asyncio.sleep or func()
RateLimiterRequest(c, url) ==
    /\ calls[c].pc = "idle"
    /\ Len(dispatches) + Cardinality({d \in DOMAIN calls : calls[d].pc = "sleeping"})
          < MaxRequests
    /\ \E nc \in next_call(LimiterKey(url), utcnow) :
          IF nc > utcnow
          THEN /\ calls' = [calls EXCEPT ![c] = [pc |-> "sleeping",
                                                 key |-> LimiterKey(url),
                                                 next_call |-> nc]]
               /\ UNCHANGED <<last_calls, dispatches>>
          ELSE Dispatch(c, LimiterKey(url))
    /\ UNCHANGED <<utcnow, settings, parserVars, requestVars, restVars>>

\* line 174 returns: asyncio.sleep has slept sleep_time_seconds or longer
Wake(c) ==
    /\ calls[c].pc = "sleeping"
    /\ utcnow >= calls[c].next_call
    /\ Dispatch(c, calls[c].key)
    /\ UNCHANGED <<utcnow, settings, parserVars, requestVars, restVars>>

\* line 177: func() returns or raises
FuncReturn(c) ==
    /\ calls[c].pc = "func"
    /\ calls' = [calls EXCEPT ![c] = IdleCall]
    /\ UNCHANGED <<utcnow, settings, last_calls, dispatches, parserVars, requestVars, restVars>>

\* time passes
Tick ==
    /\ utcnow < MaxTime
    /\ utcnow' = utcnow + 1
    /\ UNCHANGED <<settings, last_calls, calls, dispatches, parserVars, requestVars, restVars>>

InitLimiter(callers) ==
    /\ InitWith({}, {LedgerPair}, PairBatch)
    /\ utcnow = 0
    /\ settings \in RateLimits
    /\ last_calls = EmptyDict
    /\ calls = [c \in callers |-> IdleCall]
    /\ dispatches = <<>>
    /\ RequestIdle
    /\ RestIdle

NextLimiter ==
    \/ \E c \in DOMAIN calls, url \in Urls : RateLimiterRequest(c, url)
    \/ \E c \in DOMAIN calls : Wake(c)
    \/ \E c \in DOMAIN calls : FuncReturn(c)
    \/ Tick

\* concurrent callers of one limiter
SpecLimiter == InitLimiter(Callers) /\ [][NextLimiter]_vars

\* one caller that issues its requests one after another
SpecLimiterSeq == InitLimiter({"c1"}) /\ [][NextLimiter]_vars

\* the urls of two hosts, two routes on one of them
HostUrls == Urls \cup {[netloc |-> "b", path |-> "x"]}

NextLimiterHosts ==
    \/ \E c \in DOMAIN calls, url \in HostUrls : RateLimiterRequest(c, url)
    \/ \E c \in DOMAIN calls : Wake(c)
    \/ \E c \in DOMAIN calls : FuncReturn(c)
    \/ Tick

\* concurrent callers of one limiter with requests to several hosts
SpecLimiterHosts == InitLimiter(Callers) /\ [][NextLimiterHosts]_vars

\* ------------------------------------------------ ClientBase.request
\* a client that backs off on an immediately-stop status like on any other
NeverStops(status) == FALSE

\* line 289
StopsAt(status) == status \in immediately_stop_statuses

\* a client for which every 2xx status is a success
NotOkOutside2xx(status) == status \notin 200..299

\* line 288
NotOk(status) == status # 200

\* a client that keeps one ExponentialBackoff for all its requests
ClientRequestSharedBackoff(method, url, params, data) ==
    /\ req.pc = "idle"
    /\ req.n < MaxCalls
    /\ LET msg == Message(method, url, params, data)
           h == hash_request(url, params, data)
           call == [IdleReq EXCEPT !.n = req.n + 1, !.msg = msg, !.req_hash = h,
                                   !.backoff = req.backoff,
                                   !.repeat = Logical(msg) \in succeeded]
       IN IF h \in DOMAIN cached_responses
          THEN /\ req' = [call EXCEPT !.pc = "returned",
                                      !.result = {cached_responses[h]}]
               /\ net' = <<>>
          ELSE /\ req' = [call EXCEPT !.pc = "sent"]
               /\ net' = <<Event("limiter", 0, 0, msg), Event("send", 0, 0, msg)>>
    /\ UNCHANGED <<cached_responses, immediately_stop_statuses, succeeded,
                   limiterVars, parserVars, restVars>>

\* lines 258-301 up to the first await: the cache is consulted, or the rate
\* limiter is entered and do_req sends the request
ClientRequest(method, url, params, data) ==
    /\ req.pc = "idle"
    /\ req.n < MaxCalls
    /\ LET msg == Message(method, url, params, data)
           h == hash_request(url, params, data)
           call == [IdleReq EXCEPT !.n = req.n + 1, !.msg = msg, !.req_hash = h,
                                   !.repeat = Logical(msg) \in succeeded]
       IN IF h \in DOMAIN cached_responses
          THEN /\ req' = [call EXCEPT !.pc = "returned",
                                      !.result = {cached_responses[h]}]
               /\ net' = <<>>
          ELSE /\ req' = [call EXCEPT !.pc = "sent"]
               /\ net' = <<Event("limiter", 0, 0, msg), Event("send", 0, 0, msg)>>
    /\ UNCHANGED <<cached_responses, immediately_stop_statuses, succeeded,
                   limiterVars, parserVars, restVars>>

\* lines 291-292, 298-299: backoff.backoff raises or starts to sleep
Failure(status, failure) ==
    /\ UNCHANGED <<cached_responses, succeeded>>
    /\ IF backoff(req.backoff).raised
       THEN /\ req' = [req EXCEPT !.pc = "raised", !.exc = "ResponseNotOkError",
                                  !.status = status, !.failure = failure,
                                  !.failed = @ \cup {failure}]
            /\ net' = net
       ELSE /\ req' = [req EXCEPT !.pc = "backing_off", !.status = status,
                                  !.failure = failure,
                                  !.failed = @ \cup {failure}]
            /\ \E jitter \in Jitter :
                  net' = Append(net, Event("sleep", backoff(req.backoff).slept,
                                           jitter, req.msg))

\* lines 285-295: the server answers
Respond(status) ==
    /\ req.pc = "sent"
    /\ IF NotOk(status)
       THEN IF StopsAt(status)
            THEN /\ req' = [req EXCEPT !.pc = "raised", !.status = status,
                                       !.exc = "ImmediatelyStopStatusError"]
                 /\ UNCHANGED <<cached_responses, succeeded, net>>
            ELSE Failure(status, "status")
       ELSE /\ cached_responses' = DictSet(cached_responses, req.req_hash,
                                           Payload(req.msg))
            /\ succeeded' = succeeded \cup {Logical(req.msg)}
            /\ req' = [req EXCEPT !.pc = "returned", !.status = status,
                                  !.result = {Payload(req.msg)}]
            /\ net' = net
    /\ UNCHANGED <<immediately_stop_statuses, limiterVars, parserVars, restVars>>

\* a do_req that sends the request again at once after a network error,
\* without a call of backoff()
NetworkErrorRetried(error) ==
    /\ req.pc = "sent"
    /\ Len(SelectSeq(net, LAMBDA e : e.ev = "send")) <= max_backoffs + 1
    /\ req' = [req EXCEPT !.failure = error, !.failed = @ \cup {error}]
    /\ net' = Append(net, Event("send", 0, 0, req.msg))
    /\ UNCHANGED <<cached_responses, succeeded>>
    /\ UNCHANGED <<immediately_stop_statuses, limiterVars, parserVars, restVars>>

\* lines 296-299: aiohttp raises ClientError, or the request times out
NetworkError(error) ==
    /\ req.pc = "sent"
    /\ Failure(0, error)
    /\ UNCHANGED <<immediately_stop_statuses, limiterVars, parserVars, restVars>>

\* a do_req whose retry goes through the rate limiter again
BackoffWakeThrottled ==
    /\ req.pc = "backing_off"
    /\ req' = [req EXCEPT !.pc = "sent", !.backoff = backoff(req.backoff).b,
                          !.status = 0, !.failure = "none"]
    /\ net' = Append(net, Event("send", 0, 0, req.msg))
    /\ last_calls' = DictSet(last_calls, LimiterKey(req.msg.url), utcnow)
    /\ dispatches' = Append(dispatches, [key |-> LimiterKey(req.msg.url),
                                         at |-> utcnow])
    /\ UNCHANGED <<cached_responses, immediately_stop_statuses, succeeded,
                   utcnow, settings, calls, parserVars, restVars>>

\* lines 106-108 and 292, 299: the sleep of backoff() ends and do_req sends
\* the request again
BackoffWake ==
    /\ req.pc = "backing_off"
    /\ req' = [req EXCEPT !.pc = "sent", !.backoff = backoff(req.backoff).b,
                          !.status = 0, !.failure = "none"]
    /\ net' = Append(net, Event("send", 0, 0, req.msg))
    /\ UNCHANGED <<cached_responses, immediately_stop_statuses, succeeded,
                   limiterVars, parserVars, restVars>>

\* request() has returned or raised; the caller may call again
RequestEnd ==
    /\ req.pc \in {"returned", "raised"}
    /\ req' = [req EXCEPT !.pc = "idle"]
    /\ UNCHANGED <<cached_responses, immediately_stop_statuses, succeeded, net,
                   limiterVars, parserVars, restVars>>

StopStatusSets == {{}, {429}}

InitRequest ==
    /\ InitWith({}, {LedgerPair}, PairBatch)
    /\ LimiterIdle
    /\ RestIdle
    /\ cached_responses = EmptyDict
    /\ immediately_stop_statuses \in StopStatusSets
    /\ req = IdleReq
    /\ net = <<>>
    /\ succeeded = {}

NextRequest ==
    \/ \E method \in Methods, url \in Urls, params \in ParamDicts, data \in Bodies :
          ClientRequest(method, url, params, data)
    \/ \E status \in Statuses : Respond(status)
    \/ \E error \in NetworkErrors : NetworkError(error)
    \/ BackoffWake
    \/ RequestEnd

\* the request() calls made one after another on one client
SpecRequest == InitRequest /\ [][NextRequest]_vars

\* ------------------------- ClientBase.request through its RateLimiter
\* lines 258-280 and 301: the cache is consulted, or request() calls
\* self._rate_limiter.request(url, do_req)
RequestEnter(method, url, params, data) ==
    /\ req.pc = "idle"
    /\ \A c \in DOMAIN calls : calls[c].pc = "idle"
    /\ req.n < MaxCalls
    /\ LET msg == Message(method, url, params, data)
           h == hash_request(url, params, data)
           call == [IdleReq EXCEPT !.n = req.n + 1, !.msg = msg, !.req_hash = h,
                                   !.repeat = Logical(msg) \in succeeded]
       IN IF h \in DOMAIN cached_responses
          THEN req' = [call EXCEPT !.pc = "returned",
                                   !.result = {cached_responses[h]}]
          ELSE req' = [call EXCEPT !.pc = "limiter"]
    /\ net' = <<>>
    /\ UNCHANGED <<cached_responses, immediately_stop_statuses, succeeded,
                   limiterVars, parserVars, restVars>>

\* lines 151-177 for the url of the request
Throttle(c) ==
    /\ req.pc = "limiter"
    /\ RateLimiterRequest(c, req.msg.url)

\* lines 177 and 282-287: the limiter awaits func(), which is do_req, and
\* do_req sends the request
DoReq(c) ==
    /\ req.pc = "limiter"
    /\ calls[c].pc = "func"
    /\ req' = [req EXCEPT !.pc = "sent"]
    /\ net' = Append(net, Event("send", 0, 0, req.msg))
    /\ UNCHANGED <<cached_responses, immediately_stop_statuses, succeeded,
                   limiterVars, parserVars, restVars>>

\* do_req has returned or raised, and with it the limiter's request
DoReqReturn(c) ==
    /\ req.pc \in {"returned", "raised"}
    /\ FuncReturn(c)

\* request() has returned or raised
ThrottledEnd ==
    /\ \A c \in DOMAIN calls : calls[c].pc = "idle"
    /\ RequestEnd

NextThrottled ==
    \/ \E url \in Urls : RequestEnter("GET", url, None, None)
    \/ \E c \in DOMAIN calls : Throttle(c)
    \/ \E c \in DOMAIN calls : Wake(c)
    \/ \E c \in DOMAIN calls : DoReq(c)
    \/ \E status \in {200, 500} : Respond(status)
    \/ \E error \in NetworkErrors : NetworkError(error)
    \/ BackoffWake
    \/ \E c \in DOMAIN calls : DoReqReturn(c)
    \/ ThrottledEnd
    \/ Tick

\* the request() calls of one client, each through the client's limiter
InitThrottled ==
    /\ InitLimiter({"c1"})
    /\ settings.max_req = 1
    /\ settings.range_req = None

SpecThrottled == InitThrottled /\ [][NextThrottled]_vars

\* ------------------------------------------------ ClientBase._get_headers
\* a client that generates a bundle for every request
AlwaysExpired(now) == TRUE

\* line 216
HeadersExpired(now) == cached_headers = "None" \/ now > next_headers

\* lines 273-278 and 215-243: request() chooses the headers of a request
\* that is not served from the cache; `explicit` says the caller passed
\* headers, `bundle` is what Headers().generate() gives if it is called
RequestHeaders(explicit, bundle) ==
    /\ Len(sent_headers) < MaxRequests
    /\ LET generate == ~explicit /\ spoof_headers /\ HeadersExpired(utcnow)
           headers == IF explicit THEN "explicit"
                      ELSE IF ~spoof_headers THEN "default"
                      ELSE IF generate THEN bundle
                      ELSE cached_headers
       IN /\ cached_headers' = IF generate THEN bundle ELSE cached_headers
          /\ next_headers' = IF generate THEN utcnow + HeaderLifetime
                             ELSE next_headers
          /\ generations' = IF generate
                            THEN Append(generations, [at |-> utcnow, bundle |-> bundle])
                            ELSE generations
          /\ sent_headers' = Append(sent_headers,
                                    [at |-> utcnow, headers |-> headers,
                                     explicit |-> explicit,
                                     generation |-> Len(generations')])
    /\ UNCHANGED <<spoof_headers, utcnow, settings, last_calls, calls, dispatches,
                   parserVars, requestVars, selectVars, validatorVars>>

\* the times that pass between two requests
Durations == {HeaderLifetime \div 2, HeaderLifetime, HeaderLifetime + 1}

MaxHeaderTime == 3 * HeaderLifetime

Elapse(d) ==
    /\ utcnow + d <= MaxHeaderTime
    /\ utcnow' = utcnow + d
    /\ UNCHANGED <<settings, last_calls, calls, dispatches, headerVars,
                   parserVars, requestVars, selectVars, validatorVars>>

InitHeaders ==
    /\ InitWith({}, {LedgerPair}, PairBatch)
    /\ LimiterIdle
    /\ RequestIdle
    /\ SelectIdle
    /\ ValidatorIdle
    /\ spoof_headers \in BOOLEAN
    /\ cached_headers = "None"
    /\ next_headers = utcnow
    /\ generations = <<>>
    /\ sent_headers = <<>>

NextHeaders ==
    \/ \E explicit \in BOOLEAN, bundle \in Bundles : RequestHeaders(explicit, bundle)
    \/ \E d \in Durations : Elapse(d)

\* the headers of the requests of one client over some hours
SpecHeaders == InitHeaders /\ [][NextHeaders]_vars

\* ------------------------------------- ExcelParser: choosing a row's match
\* the most candidates one adapter call returns
MaxMatches == 3

\* match_validator.ValidationInfo
ValidationInfo(matched, exact, platform_matched, date_matched, publisher_matched, developer_matched, franchise_matched) ==
    [matched |-> matched, exact |-> exact,
     platform_matched |-> platform_matched, date_matched |-> date_matched,
     publisher_matched |-> publisher_matched,
     developer_matched |-> developer_matched,
     franchise_matched |-> franchise_matched]

full_match(v) == v.matched /\ v.platform_matched /\ v.date_matched

\* a GameMatch: validation_info is empty for None, else holds the info
GameMatch(id, validation_info) == [id |-> id, validation_info |-> validation_info]

\* what an adapter attaches to a candidate it returns
ValidationInfos ==
    {{}} \cup {{ValidationInfo(TRUE, e, p, d, FALSE, FALSE, FALSE)} :
                  e \in BOOLEAN, p \in BOOLEAN, d \in BOOLEAN}

\* the candidate lists of an adapter call that succeeded
MatchLists ==
    UNION {{[i \in 1..n |-> GameMatch(i, f[i])] : f \in [1..n -> ValidationInfos]} :
             n \in 0..MaxMatches}

\* a reduction that takes no candidate for a full match
NoFullMatches(mats) == <<>>

\* lines 510-517
filter_full_matches(mats) ==
    SelectSeq(mats, LAMBDA m : m.validation_info # {}
                                 /\ \A v \in m.validation_info : full_match(v))

\* lines 521-526
exact_matches(matches) ==
    SelectSeq(matches, LAMBDA m : m.validation_info # {}
                                    /\ \A v \in m.validation_info : v.exact)

\* lines 504-552
filter_matches(matches) ==
    IF Len(matches) > 1
    THEN IF Len(exact_matches(matches)) > 1
         THEN LET full_matches == filter_full_matches(exact_matches(matches))
              IN IF Len(full_matches) > 1 THEN full_matches
                 ELSE IF Len(full_matches) = 1 THEN <<full_matches[1]>>
                 ELSE exact_matches(matches)
         ELSE IF Len(exact_matches(matches)) = 1
         THEN <<exact_matches(matches)[1]>>
         ELSE LET full_matches == filter_full_matches(exact_matches(matches))
              IN IF Len(full_matches) > 1 THEN full_matches
                 ELSE IF Len(full_matches) = 1 THEN <<full_matches[1]>>
                 ELSE matches
    ELSE IF Len(matches) = 1 THEN <<matches[1]>>
    ELSE matches

\* a parser that asks about every candidate list that is not empty
AlwaysSelects(matches) == Len(matches) > 0

\* line 608
NeedsSelection(matches) == Len(matches) > 1

\* lines 587-623; `selection` is what __get_match_option_selection returns
\* (here counted from 1, Len(matches) + 1 being "None of the above")
get_match_from_multiple_matches(matches, selection) ==
    IF NeedsSelection(matches)
    THEN IF selection >= Len(matches) + 1
         THEN [was_user_input |-> TRUE, match |-> {}]
         ELSE [was_user_input |-> TRUE, match |-> {matches[selection]}]
    ELSE IF Len(matches) = 1
    THEN [was_user_input |-> FALSE, match |-> {matches[1]}]
    ELSE [was_user_input |-> FALSE, match |-> {}]

Prompt(callback, options) == [callback |-> callback, options |-> options]

\* lines 434-437 of the adapter loop: the candidates of a successful call
\* are reduced and stored as the row's success
StoreSuccess ==
    /\ decision = "none"
    /\ gmr_matches' = filter_matches(game_matches)
    /\ decision' = "success"
    /\ UNCHANGED <<game_matches, prompts, tried, headerVars, validatorVars,
                   limiterVars, requestVars, parserVars>>

\* lines 706-725: match_games settles one success of the result set;
\* `selected` and `confirmed` are the answers of the two prompts
SettleSuccess(selected, confirmed) ==
    /\ decision = "success"
    /\ selected \in 1..(Len(gmr_matches) + 1)
    /\ LET got == get_match_from_multiple_matches(gmr_matches, selected)
           asked == IF NeedsSelection(gmr_matches)
                    THEN <<Prompt("selection", gmr_matches)>>
                    ELSE <<>>
       IN IF got.match = {}
          THEN /\ decision' = "no_match"
               /\ prompts' = prompts \o asked
          ELSE \E match \in got.match :
                 IF got.was_user_input
                 THEN /\ decision' = "match"
                      /\ prompts' = prompts \o asked
                 ELSE IF match.validation_info = {}
                 THEN /\ decision' = "AttributeError"
                      /\ prompts' = prompts \o asked
                 ELSE \E v \in match.validation_info :
                        IF full_match(v) \/ v.exact
                        THEN /\ decision' = "match"
                             /\ prompts' = prompts \o asked
                        ELSE /\ decision' = IF confirmed THEN "match" ELSE "no_match"
                             /\ prompts' = prompts \o asked
                                             \o <<Prompt("confirm", <<match>>)>>
    /\ UNCHANGED <<game_matches, gmr_matches, tried, headerVars, validatorVars,
                   limiterVars, requestVars, parserVars>>

InitSelect ==
    /\ InitWith({}, {LedgerPair}, PairBatch)
    /\ LimiterIdle
    /\ RequestIdle
    /\ HeadersIdle
    /\ ValidatorIdle
    /\ game_matches \in MatchLists
    /\ gmr_matches = <<>>
    /\ prompts = <<>>
    /\ decision = "none"
    /\ tried = NotTried

NextSelect ==
    \/ StoreSuccess
    \/ \E selected \in 1..(MaxMatches + 1), confirmed \in BOOLEAN :
          SettleSuccess(selected, confirmed)

\* one row of one source from the adapter's answer to the recorded match
SpecSelect == InitSelect /\ [][NextSelect]_vars

\* ------------------------------------------------ ClientBase.try_match_game
\* how should_skip(game) ends: with a bool or with an exception
ShouldSkipEnds ==
    {"True", "False", "Exception", "ImmediatelyStopStatusError", "NotImplementedError"}

\* the exceptions an adapter's match_game ends with
MatchGameRaises ==
    {"Exception", "ResponseNotOkError", "ImmediatelyStopStatusError",
     "NotImplementedError"}

\* how match_game(game) ends: with a list of candidates or with an exception
MatchGameCalls ==
    {[raised |-> "none", value |-> {m}] : m \in MatchLists}
        \cup {Escaped(e) : e \in MatchGameRaises}

\* a try_match_game whose last clause catches every exception
ExceptAll(exc) == Gave(FALSE, {}, {exc})

\* lines 340-345: the except clauses
Except(exc) ==
    IF exc = "NotImplementedError" THEN Escaped(exc)
    ELSE IF exc = "ImmediatelyStopStatusError" THEN Escaped(exc)
    ELSE Gave(FALSE, {}, {exc})

\* lines 333-345: try_match_game of a client whose should_skip and
\* match_game end as given
TryMatchGameCall(should_skip, match_game) ==
    IF should_skip \notin {"True", "False"} THEN Except(should_skip)
    ELSE IF should_skip = "True" THEN Gave(TRUE, {}, {})
    ELSE IF match_game.raised # "none" THEN Except(match_game.raised)
    ELSE Gave(TRUE, match_game.value, {})

\* excel_parser.py line 416: success, game_matches, exc = await
\* client.try_match_game(game)
TryMatchGame(should_skip, match_game) ==
    /\ ~tried.called
    /\ decision = "none"
    /\ tried' = [called |-> TRUE, should_skip |-> should_skip,
                 match_game |-> match_game,
                 result |-> TryMatchGameCall(should_skip, match_game)]
    /\ UNCHANGED <<game_matches, gmr_matches, prompts, decision, headerVars,
                   validatorVars, limiterVars, requestVars, parserVars>>

\* excel_parser.py lines 417-449: what the loop records for the row
RecordRow ==
    /\ tried.called
    /\ decision = "none"
    /\ IF tried.result.raised # "none"
       THEN /\ decision' = IF tried.result.raised = "ImmediatelyStopStatusError"
                           THEN "stop" ELSE "crash"
            /\ UNCHANGED <<game_matches, gmr_matches>>
       ELSE \E t \in tried.result.value :
              IF t[1] /\ t[2] # {}
              THEN \E m \in t[2] :
                     /\ game_matches' = m
                     /\ gmr_matches' = filter_matches(m)
                     /\ decision' = "success"
              ELSE /\ decision' = IF ~t[1] THEN "error" ELSE "skipped"
                   /\ UNCHANGED <<game_matches, gmr_matches>>
    /\ UNCHANGED <<prompts, tried, headerVars, validatorVars, limiterVars,
                   requestVars, parserVars>>

InitTryMatch ==
    /\ InitWith({}, {LedgerPair}, PairBatch)
    /\ LimiterIdle
    /\ RequestIdle
    /\ HeadersIdle
    /\ ValidatorIdle
    /\ SelectIdle

NextTryMatch ==
    \/ \E should_skip \in ShouldSkipEnds, match_game \in MatchGameCalls :
          TryMatchGame(should_skip, match_game)
    \/ RecordRow

\* one row of one source from the call of try_match_game to its record
SpecTryMatch == InitTryMatch /\ [][NextTryMatch]_vars

\* ------------------------------------------------- MatchValidator: titles
\* A title is a sequence of characters. TitleChars are the characters of
\* the titles compared here: a letter that is no Roman numeral, the Roman
\* numerals I and X, a digit, a space, a colon, and the fullwidth capital
\* I (U+FF29), a letter that NFKD turns into the Latin one.
MaxTitleLen == 3

TitleChars == {"a", "I", "X", "2", " ", ":", "FULLWIDTH I"}

\* a candidate's title has up to MaxCandidateLen characters
MaxCandidateLen == 2

TitlesUpTo(len) == UNION {[1..n -> TitleChars] : n \in 0..len}

DigitChars == <<"0", "1", "2", "3", "4", "5", "6", "7", "8", "9">>

\* str.isdigit
isdigit(c) == c \in Range(DigitChars)

\* the characters [A-Za-z0-9] that occur in titles and normalized titles
IsAsciiAlnum(c) ==
    isdigit(c) \/ c \in {"a", "A", "i", "I", "v", "V", "x", "X", "n", "d"}

\* str.isalnum
isalnum(c) == IsAsciiAlnum(c) \/ c \in {"FULLWIDTH I", "fullwidth i"}

\* str.isspace
isspace(c) == c = " "

\* str.upper
upper(c) ==
    CASE c = "a" -> "A" [] c = "i" -> "I" [] c = "v" -> "V" [] c = "x" -> "X"
      [] c = "n" -> "N" [] c = "d" -> "D"
      [] c = "fullwidth i" -> "FULLWIDTH I"
      [] OTHER -> c

\* str.casefold
casefold(c) ==
    CASE c = "A" -> "a" [] c = "I" -> "i" [] c = "V" -> "v" [] c = "X" -> "x"
      [] c = "N" -> "n" [] c = "D" -> "d"
      [] c = "FULLWIDTH I" -> "fullwidth i"
      [] OTHER -> c

\* unicodedata.normalize("NFKD", c): the compatibility decomposition
NFKD(c) ==
    CASE c = "FULLWIDTH I" -> <<"I">>
      [] c = "fullwidth i" -> <<"i">>
      [] OTHER -> <<c>>

RECURSIVE Flatten(_)
Flatten(seqs) ==
    IF seqs = <<>> THEN <<>> ELSE Head(seqs) \o Flatten(Tail(seqs))

\* str(n) for a number below 100
Decimal(n) ==
    IF n < 10 THEN <<DigitChars[n + 1]>>
    ELSE <<DigitChars[(n \div 10) + 1], DigitChars[(n % 10) + 1]>>

\* the units of a Roman numeral: (IX|IV|V?I{0,3})
RomanUnits ==
    {<<<<>>, 0>>, <<<<"I">>, 1>>, <<<<"I", "I">>, 2>>, <<<<"I", "I", "I">>, 3>>,
     <<<<"I", "V">>, 4>>, <<<<"V">>, 5>>, <<<<"V", "I">>, 6>>,
     <<<<"V", "I", "I">>, 7>>, <<<<"V", "I", "I", "I">>, 8>>, <<<<"I", "X">>, 9>>}

\* the X's a numeral starts with, IX excluded by the caller
RECURSIVE LeadingX(_)
LeadingX(string) ==
    IF string # <<>> /\ Head(string) = "X" THEN 1 + LeadingX(Tail(string)) ELSE 0

\* roman.fromRoman on numerals of I, V and X: the set is empty where it
\* raises InvalidRomanNumeralError (the empty string, and everything that
\* does not match X{0,3}(IX|IV|V?I{0,3}))
fromRoman(string) ==
    {10 * LeadingX(string) + u[2] :
        u \in {r \in RomanUnits :
                 /\ string # <<>>
                 /\ LeadingX(string) <= 3
                 /\ r[1] = SubSeq(string, LeadingX(string) + 1, Len(string))}}

\* str.split(): the parts between runs of whitespace
RECURSIVE split(_)
split(string) ==
    IF string = <<>> THEN <<>>
    ELSE IF isspace(Head(string)) THEN split(Tail(string))
    ELSE LET ends == {n \in 1..Len(string) :
                        /\ \A m \in 1..n : ~isspace(string[m])
                        /\ (n = Len(string) \/ isspace(string[n + 1]))}
             n == CHOOSE e \in ends : TRUE
         IN <<SubSeq(string, 1, n)>> \o split(SubSeq(string, n + 1, Len(string)))

\* " ".join(parts)
RECURSIVE join(_)
join(parts) ==
    IF parts = <<>> THEN <<>>
    ELSE IF Len(parts) = 1 THEN parts[1]
    ELSE parts[1] \o <<" ">> \o join(Tail(parts))

\* str.strip()
RECURSIVE strip(_)
strip(string) ==
    IF string # <<>> /\ isspace(Head(string)) THEN strip(Tail(string))
    ELSE IF string # <<>> /\ isspace(string[Len(string)])
    THEN strip(SubSeq(string, 1, Len(string) - 1))
    ELSE string

\* str.startswith, str.endswith
startswith(string, prefix) ==
    Len(string) >= Len(prefix) /\ SubSeq(string, 1, Len(prefix)) = prefix

endswith(string, suffix) ==
    /\ Len(string) >= Len(suffix)
    /\ SubSeq(string, Len(string) - Len(suffix) + 1, Len(string)) = suffix

\* str.replace(old, new) and re.sub of a literal pattern
RECURSIVE replace(_, _, _)
replace(string, old, new) ==
    IF string = <<>> THEN <<>>
    ELSE IF startswith(string, old)
    THEN new \o replace(SubSeq(string, Len(old) + 1, Len(string)), old, new)
    ELSE <<Head(string)>> \o replace(Tail(string), old, new)

\* lines 226-229: _max is 20
roman_max == 20

\* lines 223-231
try_roman_numeralize(part) ==
    LET filter_str == SelectSeq(part, isalnum)
        nums == fromRoman([n \in 1..Len(filter_str) |-> upper(filter_str[n])])
    IN IF nums = {} THEN part
       ELSE LET num == CHOOSE n \in nums : TRUE
            IN IF num > roman_max THEN part ELSE Decimal(num)

\* lines 210-233
roman_numeralize(string) ==
    join([n \in 1..Len(split(string)) |-> try_roman_numeralize(split(string)[n])])

\* lines 191-208 and 263-265: the marks and the long vowels
romanize(string) ==
    replace(replace(replace(replace(string, <<"o-macron">>, <<"o">>),
                            <<"u-macron">>, <<"u">>),
                    <<"O-macron">>, <<"O">>),
            <<"U-macron">>, <<"U">>)

strip_marks(string) ==
    replace(replace(replace(string, <<"(TM)">>, <<>>), <<"(R)">>, <<>>),
            <<"(C)">>, <<>>)

\* html.unescape: a string without "&" is returned as it is; the titles
\* here hold no character references
html_unescape(string) ==
    IF \A n \in 1..Len(string) : string[n] # "&" THEN string
    ELSE replace(string, <<"&", "a", "m", "p", ";">>, <<"&">>)

\* line 258: ( \([A-Za-z0-9]{4}\)) is removed wherever it occurs
RECURSIVE strip_year(_)
strip_year(string) ==
    IF string = <<>> THEN <<>>
    ELSE IF /\ Len(string) >= 7
            /\ string[1] = " " /\ string[2] = "(" /\ string[7] = ")"
            /\ \A n \in 3..6 : IsAsciiAlnum(string[n])
    THEN strip_year(SubSeq(string, 8, Len(string)))
    ELSE <<Head(string)>> \o strip_year(Tail(string))

\* lines 235-278; the memo of line 251 and 277 holds what this computes
normalize(string) ==
    LET numeralized == html_unescape(roman_numeralize(romanize(strip_marks(string))))
        folded == replace([n \in 1..Len(numeralized) |-> casefold(numeralized[n])],
                          <<"&">>, <<"a", "n", "d">>)
        cut == strip_year(folded)
        decomposed == strip(Flatten([n \in 1..Len(cut) |-> NFKD(cut[n])]))
    IN SelectSeq(decomposed, isalnum)

\* lines 125-139, for titles that are not None
titles_equal_normalized(t_1, t_2) == normalize(t_1) = normalize(t_2)

\* one row of the edit-distance table: `above` is the row of the prefix
\* one shorter, `row` the part of this row that is filled in
RECURSIVE DistanceRow(_, _, _, _)
DistanceRow(c, b, above, row) ==
    IF Len(row) = Len(b) + 1 THEN row
    ELSE DistanceRow(c, b, above,
            Append(row, Min(above[Len(row) + 1] + 1,
                            Min(row[Len(row)] + 1,
                                above[Len(row)]
                                  + (IF c = b[Len(row)] THEN 0 ELSE 1)))))

RECURSIVE DistanceFrom(_, _, _, _)
DistanceFrom(a, b, n, above) ==
    IF n > Len(a) THEN above[Len(b) + 1]
    ELSE DistanceFrom(a, b, n + 1, DistanceRow(a[n], b, above, <<n>>))

\* edit_distance.SequenceMatcher(a, b).distance(): insertions, deletions
\* and substitutions that turn a into b
distance(a, b) == DistanceFrom(a, b, 1, [n \in 1..(Len(b) + 1) |-> n - 1])

\* t.split(":", maxsplit=1)[0]
before_colon(t) ==
    IF \E n \in 1..Len(t) : t[n] = ":"
    THEN SubSeq(t, 1, (CHOOSE n \in 1..Len(t) :
                          t[n] = ":" /\ \A m \in 1..(n - 1) : t[m] # ":") - 1)
    ELSE t

\* lines 158-159
fuzzy(t) == replace(before_colon(t), <<"T", "h", "e", " ">>, <<>>)

\* lines 173-189
pokemon_special_case(t_1, t_2) ==
    LET version == <<"v", "e", "r", "s", "i", "o", "n">>
    IN IF /\ startswith(t_1, <<"P", "o", "k", "e-acute", "m", "o", "n">>)
          /\ ~endswith(t_1, version)
       THEN titles_equal_normalized(t_1 \o version, t_2)
       ELSE FALSE

Returned(op, value) == [op |-> op, raised |-> "none", value |-> {value}]

Raised(op, exception) == [op |-> op, raised |-> exception, value |-> {}]

\* lines 141-171, evaluated left to right as Python does: t_2[-1] of an
\* empty string raises IndexError (t_1 holds a character where it is read)
titles_equal_fuzzy(t_1, t_2) ==
    IF titles_equal_normalized(fuzzy(t_1), fuzzy(t_2))
    THEN Returned("titles_equal_fuzzy", TRUE)
    ELSE IF /\ distance(normalize(t_1), normalize(t_2)) <= 2
            /\ Len(t_1) > 1
            /\ ~isdigit(t_1[Len(t_1)])
    THEN IF t_2 = <<>>
         THEN Raised("titles_equal_fuzzy", "IndexError")
         ELSE IF ~isdigit(t_2[Len(t_2)])
         THEN Returned("titles_equal_fuzzy", TRUE)
         ELSE Returned("titles_equal_fuzzy", pokemon_special_case(t_1, t_2))
    ELSE Returned("titles_equal_fuzzy", pokemon_special_case(t_1, t_2))

\* a title is normalized
Normalize ==
    /\ validated = NotValidated
    /\ validated' = Returned("normalize", normalize(excel_game.title))
    /\ UNCHANGED <<excel_game, candidate, headerVars, selectVars,
                   limiterVars, requestVars, parserVars>>

\* the row's title is compared with a candidate's
TitlesEqualFuzzy ==
    /\ validated = NotValidated
    /\ validated' = titles_equal_fuzzy(excel_game.title, candidate.title)
    /\ UNCHANGED <<excel_game, candidate, headerVars, selectVars,
                   limiterVars, requestVars, parserVars>>

InitTitles ==
    /\ InitWith({}, {LedgerPair}, PairBatch)
    /\ LimiterIdle
    /\ RequestIdle
    /\ HeadersIdle
    /\ SelectIdle
    /\ \E t_1 \in TitlesUpTo(MaxTitleLen), t_2 \in TitlesUpTo(MaxCandidateLen) :
          /\ excel_game = ExcelGame(t_1, <<>>, 0, <<>>, <<>>, <<>>)
          /\ candidate = Candidate(t_2, <<>>, <<>>, <<>>, <<>>, <<>>)
    /\ validated = NotValidated

NextTitles == Normalize \/ TitlesEqualFuzzy

\* the title functions on every title of a row and of a candidate
SpecTitles == InitTitles /\ [][NextTitles]_vars

\* ----------------------------------------------- MatchValidator.validate
\* constants.PLATFORM_NAMES, the entries of three platforms: the table has
\* no entry for some platforms of ExcelPlatform, "Atari 5200" among them
PLATFORM_NAMES ==
    [k \in {"atari 2600", "nes", "snes"} |->
        CASE k = "atari 2600" -> {"2600"}
          [] k = "nes" -> {"famicom", "nintendo entertainment system",
                           "family computer", "nintendo"}
          [] k = "snes" -> {"super famicom",
                            "super nintendo entertainment system", "sfc",
                            "super nintendo"}]

\* values of excel_game.ExcelPlatform
ExcelPlatforms == {"NES", "SNES", "Atari 5200"}

\* str.lower on the names of platforms
lower(p) ==
    CASE p = "NES" -> "nes" [] p = "SNES" -> "snes" [] p = "Famicom" -> "famicom"
      [] p = "Atari 2600" -> "atari 2600" [] p = "Atari 5200" -> "atari 5200"
      [] OTHER -> p

\* lines 344-350: any(filter(lambda p: ..., platforms)) tries the names in
\* their order; PLATFORM_NAMES[...] of a missing key raises KeyError

RECURSIVE any_platform(_, _)
any_platform(platform, platforms) ==
    IF platforms = <<>> THEN Returned("verify_platform", FALSE)
    ELSE IF lower(Head(platforms)) = lower(platform)
    THEN Returned("verify_platform", TRUE)
    ELSE IF lower(platform) \notin DOMAIN PLATFORM_NAMES
    THEN Raised("verify_platform", "KeyError")
    ELSE IF lower(Head(platforms)) \in PLATFORM_NAMES[lower(platform)]
    THEN Returned("verify_platform", TRUE)
    ELSE any_platform(platform, Tail(platforms))

\* lines 329-350; None and the empty list are both <<>>
verify_platform(platform, platforms) ==
    IF platforms = None THEN Returned("verify_platform", FALSE)
    ELSE any_platform(platform, platforms)

\* lines 352-364
verify_release_year(release_year, release_years) ==
    \E n \in 1..Len(release_years) : release_years[n] = release_year

\* str(x) of an Optional[str]
StrOf(x) == IF x = None THEN <<"N", "o", "n", "e">> ELSE x

\* lines 366-383
verify_component(component, components) ==
    IF components = None THEN FALSE
    ELSE \E n \in 1..Len(components) :
            normalize(StrOf(component)) = normalize(components[n])

\* lines 385-391
verify_franchise(franchise, franchises) ==
    IF franchises = None /\ franchise = None THEN TRUE
    ELSE verify_component(franchise, franchises)

\* lines 280-327, in the order of evaluation: the titles (line 300-305),
\* the platform (307-311), the year (313-317) and the other flags
validate(game, cand) ==
    LET normal_equal == titles_equal_normalized(game.title, cand.title)
        fuzzy_result == titles_equal_fuzzy(game.title, cand.title)
        platform_result == verify_platform(game.platform, cand.platforms)
    IN IF ~normal_equal /\ fuzzy_result.raised # "none"
       THEN Raised("validate", fuzzy_result.raised)
       ELSE IF ~normal_equal /\ fuzzy_result.value = {FALSE}
       THEN Returned("validate", ValidationInfo(FALSE, FALSE, FALSE, FALSE,
                                                FALSE, FALSE, FALSE))
       ELSE IF cand.platforms # None /\ platform_result.raised # "none"
       THEN Raised("validate", platform_result.raised)
       ELSE Returned("validate",
               ValidationInfo(
                   TRUE,
                   normal_equal,
                   cand.platforms # None /\ platform_result.value = {TRUE},
                   /\ cand.release_years # None
                   /\ verify_release_year(game.release_year, cand.release_years),
                   verify_component(game.publisher, cand.publishers),
                   verify_component(game.developer, cand.developers),
                   verify_franchise(game.franchise, cand.franchises)))

\* an adapter validates a candidate against the row
Validate ==
    /\ validated = NotValidated
    /\ validated' = validate(excel_game, candidate)
    /\ UNCHANGED <<excel_game, candidate, headerVars, selectVars,
                   limiterVars, requestVars, parserVars>>

\* the platform of the row is looked for among a candidate's platforms
VerifyPlatform ==
    /\ validated = NotValidated
    /\ validated' = verify_platform(excel_game.platform, candidate.platforms)
    /\ UNCHANGED <<excel_game, candidate, headerVars, selectVars,
                   limiterVars, requestVars, parserVars>>

\* the rows and the candidates that are validated
RowTitles == {<<"I", "I">>, <<"a">>, <<"2", ":">>}

FoundTitles == {<<"2">>, <<"I">>, <<"a">>, <<>>}

PlatformLists ==
    {None, <<"Famicom">>, <<"nes">>, <<"SNES">>, <<"SNES", "Famicom">>,
     <<"Atari 5200">>, <<"Atari 2600", "Atari 5200">>}

YearLists == {None, <<1990>>, <<1991>>}

ComponentLists == {None, <<<<"A">>>>, <<<<"X">>, <<"I">>>>}

InitValidate ==
    /\ InitWith({}, {LedgerPair}, PairBatch)
    /\ LimiterIdle
    /\ RequestIdle
    /\ HeadersIdle
    /\ SelectIdle
    /\ \E title \in RowTitles, platform \in ExcelPlatforms,
          franchise \in {None, <<"a">>} :
          excel_game = ExcelGame(title, platform, 1990, <<"a">>, <<"a">>, franchise)
    /\ \E title \in FoundTitles, platforms \in PlatformLists,
          release_years \in YearLists, publishers \in ComponentLists,
          developers \in ComponentLists, franchises \in {None, <<<<"A">>>>} :
          candidate = Candidate(title, platforms, release_years, publishers,
                                developers, franchises)
    /\ validated = NotValidated

NextValidate == Validate \/ VerifyPlatform

\* one call of validate or of verify_platform on a row and a candidate
SpecValidate == InitValidate /\ [][NextValidate]_vars

\* ------------------------------------------------------------------ claims
ResultCategories == {"success", "error", "skipped"}

CategoryEntries(rs, category) ==
    CASE category = "success" -> rs._successes
      [] category = "error" -> rs._errors
      [] category = "skipped" -> rs._skipped

CategoriesOf(rs, h) == {c \in ResultCategories : h \in HashIds(CategoryEntries(rs, c))}

CategoryMap(rs) == [h \in Hashes |-> CategoriesOf(rs, h)]

\* C1: in the result set of a batch no row hash is recorded under more than
\* one of the categories success, error and skipped, whatever the rows'
\* outcomes were, immediate stops and non-zero offsets included.
C1_OneCategoryPerRow ==
    \A s \in enabled_clients, h \in Hashes :
        Cardinality(CategoriesOf(task[s].results, h)) <= 1

\* The batch of the source's task run from its first row without a
\* checkpoint, the source answering as it has answered; known says whether
\* every answer needed is known and let the batch end.

RECURSIVE RunBatch(_, _, _, _, _)
RunBatch(source, rs, offset, batch_stop, i) ==
    LET loop == RunLoop(source, rs, offset, batch_stop, i)
        row == PySlice(games, offset, batch_stop)[loop.i + 1]
    IN  IF loop.state = "done" THEN [known |-> TRUE, results |-> loop.results]
        ELSE IF adapter[source][row] \in {"unknown", "crash"}
        THEN [known |-> FALSE, results |-> loop.results]
        ELSE IF adapter[source][row] = "stop"
        THEN [known |-> TRUE, results |-> RecordStop(loop.results, loop.i)]
        ELSE RunBatch(source, RecordOutcome(loop.results, row, adapter[source][row]),
                      offset, batch_stop, loop.i + 1)

Uninterrupted(source) ==
    RunBatch(source, GameMatchResultSet(task[source].original_offset, batch_size),
             task[source].original_offset,
             task[source].original_offset + batch_size, 0)

\* C2: a batch cancelled after k rows and resumed from its checkpoint enters
\* its loop at row k of the batch, and when it ends its result set maps every
\* row hash to the categories an uninterrupted run of the batch maps it to.
C2_ResumeEqualsUninterrupted ==
    \A s \in enabled_clients :
        (/\ resumed[s].can_resume
         /\ resumed[s].original_offset = task[s].original_offset
         /\ interrupted[s].valid
         /\ interrupted[s].key = FileKey(task[s].original_offset, batch_size))
        => /\ resumed[s].offset = task[s].original_offset + interrupted[s].k
           /\ (task[s].state = "done" /\ Uninterrupted(s).known)
                => CategoryMap(task[s].results) = CategoryMap(Uninterrupted(s).results)

\* C3: a task cancelled at the await of its loop leaves a checkpoint under
\* the key of its batch that holds the result set as it was at the await.
C3_CheckpointOnCancel ==
    [][\A s \in Sources :
          (task[s].state = "awaiting" /\ task'[s].state = "cancelled")
          => /\ FileKey(task[s].original_offset, batch_size) \in DOMAIN resumable'[s]
             /\ resumable'[s][FileKey(task[s].original_offset, batch_size)]
                  = Pickle(task[s].results)]_vars

C3_Witness ==
    \E s \in Sources :
        /\ task[s].state = "cancelled"
        /\ interrupted[s].valid
        /\ interrupted[s].k > 0
        /\ interrupted[s].key \in DOMAIN resumable[s]
        /\ resumable[s][interrupted[s].key].readable
        /\ CacheResultHashes(resumable[s][interrupted[s].key].value) # {}

PersistedHashes(source) ==
    UNION {get_all_processed_hash_ids(source, ty) : ty \in OutputTypes}

CheckpointedHashes(source) ==
    UNION {CacheResultHashes(resumable[source][k].value) :
             k \in {x \in DOMAIN resumable[source] : resumable[source][x].readable}}

\* C4: when a batch's task has ended by an exception or by cancellation, or
\* has finished while match_games has ended without storing it, every row
\* outcome the task recorded is in a checkpoint or in an output file.
C4_ComputedOutcomesDurable ==
    \A s \in enabled_clients :
        (\/ task[s].state \in {"failed", "cancelled"}
         \/ (task[s].state = "done" /\ main # "running"))
        => CacheResultHashes(task[s].results)
             \subseteq (PersistedHashes(s) \cup CheckpointedHashes(s))

\* C5: a readable checkpoint is resumed exactly when the set of its row
\* hashes equals the set of hashes of the rows at [start, start + count);
\* otherwise it is removed and the batch starts at its first row with an
\* empty result set.
C5_ResumeOnlyOnExactMatch ==
    \A s \in enabled_clients :
        (resumed[s].found /\ resumed[s].readable)
        => IF resumed[s].cache = resumed[s].expected
           THEN resumed[s].can_resume
           ELSE /\ ~resumed[s].can_resume
                /\ resumed[s].removed
                /\ resumed[s].offset = resumed[s].original_offset
                /\ resumed[s].count = 0

\* C6: a checkpoint that cannot be loaded does not end the task: the file is
\* removed and the batch starts at its first row with an empty result set.
C6_UnreadableCheckpointNotFatal ==
    \A s \in enabled_clients :
        (resumed[s].found /\ ~resumed[s].readable)
        => /\ task[s].exc # "checkpoint"
           /\ resumed[s].removed
           /\ resumed[s].offset = resumed[s].original_offset
           /\ resumed[s].count = 0

\* C7: try_match_game is not awaited for a row whose hash is in the index of
\* the source's stored outputs (matches, no-matches, skipped, errors).
C7_NoAdapterCallForStoredRows ==
    \A s \in enabled_clients :
        task[s].state = "awaiting"
        => AwaitedRow(task[s]) \notin (processed[s].matches \cup processed[s].skipped
                                         \cup processed[s].errors)

\* C8: no step removes from the source's output files the hash of a row
\* that is in the ledger.
C8_PersistedHashesKept ==
    [][\A s \in Sources :
          (PersistedHashes(s) \cap Range(games')) \subseteq PersistedHashes(s)']_vars

\* C9: once an immediate stop was raised for a source, no task of the source
\* awaits try_match_game again in the run.
C9_StopIsTerminal ==
    \A s \in enabled_clients : stopped[s] => task[s].state # "awaiting"

\* C10: match_games does not raise because a source's task failed, and no
\* task is cancelled unless the run was cancelled.
C10_SourceFailureIsolated ==
    /\ main # "raised"
    /\ \A s \in enabled_clients : task[s].state = "cancelled" => main = "cancelled"

\* C11: when match_games has returned in a run of two sources in which one
\* source hit an immediate stop, every other source whose own task did not
\* fail was asked about each ledger row it did not stop at itself, and each
\* ledger row is in one of its output files.
C11_StopLeavesSiblingComplete ==
    \A a \in enabled_clients : \A b \in enabled_clients \ {a} :
        (main = "returned" /\ stopped[a] /\ task[b].exc = "none") =>
            /\ task[b].state = "stored"
            /\ Range(games) \subseteq PersistedHashes(b)
            /\ ~stopped[b] => \A h \in Range(games) : adapter[b][h] # "unknown"

\* one source stopped at its second row, the other matched all rows
C11_Witness ==
    \E a \in enabled_clients : \E b \in enabled_clients \ {a} :
        /\ main = "returned"
        /\ adapter[a][games[1]] = "match"
        /\ adapter[a][games[2]] = "stop"
        /\ \A h \in Range(games) : adapter[b][h] = "match"
        /\ Range(games) = get_all_processed_hash_ids(b, "matches")

\* the ledger position (from 0) of the row a task awaits its adapter for
AwaitedPosition(t) == t.offset + t.i

RecordedHashes(rs) == HashIds(rs._successes \cup rs._errors \cup rs._skipped)

\* C12: a source has at most one task in match_games' list, a task awaits
\* the adapter for one row of its own batch, and when a task goes from the
\* adapter call of one row to the adapter call of another, the other row is
\* later in the ledger and the outcome of the first is in the result set.
C12_SequentialInRowOrder ==
    [][\A s \in enabled_clients :
          /\ Cardinality({n \in DOMAIN tasks' : tasks'[n] = s}) <= 1
          /\ task'[s].state = "awaiting" =>
                /\ AwaitedPosition(task'[s]) >= task'[s].original_offset
                /\ AwaitedPosition(task'[s]) < task'[s].original_offset + batch_size'
                /\ AwaitedPosition(task'[s]) < Len(games')
          /\ (task[s].state = "awaiting" /\ task'[s].state = "awaiting"
                /\ task'[s] # task[s]) =>
                /\ AwaitedPosition(task'[s]) > AwaitedPosition(task[s])
                /\ AwaitedRow(task[s]) \in RecordedHashes(task'[s].results)
                /\ task'[s].results._index = task[s].results._index
                      + (AwaitedPosition(task'[s]) - AwaitedPosition(task[s]))]_vars

\* a task awaits the adapter for the third row of its batch after two
\* recorded outcomes
C12_Witness ==
    \E s \in enabled_clients :
        /\ task[s].state = "awaiting"
        /\ ~resumed[s].found
        /\ task[s].i = 2
        /\ Cardinality(RecordedHashes(task[s].results)) = 2

\* the smallest spacing the settings allow between two calls under a key
MinSpacing == CHOOSE sp \in seconds_between_requests :
                 \A other \in seconds_between_requests : sp <= other

\* C13: with concurrent callers, any two dispatches under one key are at
\* least the configured spacing apart.
C13_ConcurrentSpacing ==
    \A m \in DOMAIN dispatches : \A n \in DOMAIN dispatches :
        (m < n /\ dispatches[m].key = dispatches[n].key) =>
            dispatches[n].at - dispatches[m].at >= MinSpacing

DispatchesOf(key) == {n \in DOMAIN dispatches : dispatches[n].key = key}

\* C14: with one caller issuing its requests one after another, the N
\* dispatches under a key span at least N - 1 spacings from first to last.
C14_SequentialDuration ==
    \A key \in DOMAIN last_calls :
        \A first \in DispatchesOf(key) : \A last \in DispatchesOf(key) :
            first <= last =>
                dispatches[last].at - dispatches[first].at
                    >= Cardinality({n \in DispatchesOf(key) : first <= n /\ n < last})
                         * MinSpacing

\* three requests under one key were dispatched
C14_Witness ==
    \E key \in DOMAIN last_calls :
        /\ Cardinality(DispatchesOf(key)) = MaxRequests
        /\ MaxRequests >= 3
        /\ settings.range_req = None

\* the sleeps of backoff() in the current request() call
Sleeps == SelectSeq(net, LAMBDA e : e.ev = "sleep")

Sends == SelectSeq(net, LAMBDA e : e.ev = "send")

\* C15: a failure that arrives when max_backoffs failures were backed off
\* ends the request with ResponseNotOkError without another sleep, the
\* error is not the failure that caused it, and ResponseNotOkError is
\* raised in no other case.
C15_BackoffExhausted ==
    [][/\ (req.pc = "sent" /\ req'.failure # "none"
            /\ req.backoff._backoffs = req.backoff.max_backoffs) =>
              /\ req'.pc = "raised"
              /\ req'.exc = "ResponseNotOkError"
              /\ req'.exc \notin NetworkErrors \cup {"ImmediatelyStopStatusError"}
              /\ net' = net
       /\ (req'.exc = "ResponseNotOkError" /\ req.exc # "ResponseNotOkError") =>
              /\ req.backoff._backoffs = req.backoff.max_backoffs
              /\ Len(Sleeps) = max_backoffs]_vars

\* a request ended with ResponseNotOkError after max_backoffs sleeps
C15_Witness ==
    /\ req.pc = "raised"
    /\ req.exc = "ResponseNotOkError"
    /\ req.failure \in NetworkErrors
    /\ Len(Sleeps) = max_backoffs

\* delay_0 = initial_backoff, delay_{n+1} = delay_n ^ exponent

RECURSIVE Delay(_)
Delay(n) == IF n = 0 THEN initial_backoff ELSE Pow(Delay(n - 1), exponent)

\* C16: the n-th sleep of a request lasts Delay(n - 1) seconds plus a jitter
\* below one second (2, 4 and 16 seconds with the defaults), and the
\* counter of the backoff is the number of sleeps that have ended.
C16_BackoffDelays ==
    /\ \A n \in 1..Len(Sleeps) :
          /\ Sleeps[n].secs = Delay(n - 1)
          /\ Sleeps[n].jitter \in 0..(TicksPerSecond - 1)
    /\ [n \in 1..Len(Sleeps) |-> Sleeps[n].secs] = SubSeq(<<2, 4, 16>>, 1, Len(Sleeps))
    /\ req.backoff._backoffs
          = Len(Sleeps) - (IF req.pc = "backing_off" THEN 1 ELSE 0)
    /\ req.backoff.backoff_seconds = Delay(req.backoff._backoffs)

\* a request slept three times
C16_Witness ==
    /\ Len(Sleeps) = 3
    /\ req.pc = "sent"
    /\ req.backoff._backoffs = 3

\* C17: a response whose status is in the immediately-stop set ends the
\* request with ImmediatelyStopStatusError, with no sleep and no send after
\* it, on the first attempt and on a retry, and try_match_game passes the
\* exception on as an immediate stop, not as the row's error.
C17_StopBypassesBackoff ==
    [][/\ (req.pc = "sent" /\ req' # req
            /\ req'.status \in immediately_stop_statuses) =>
              /\ req'.pc = "raised"
              /\ req'.exc = "ImmediatelyStopStatusError"
              /\ net' = net
              /\ try_match_game(req'.exc) = "stop"
       /\ req.pc = "raised" => (net' = net /\ req'.pc = "idle")]_vars

\* an immediately-stop status answered a retry
C17_Witness ==
    /\ req.pc = "raised"
    /\ req.exc = "ImmediatelyStopStatusError"
    /\ req.status \in immediately_stop_statuses
    /\ Len(Sleeps) = 1
    /\ Len(Sends) = 2

\* C18: when try_match_game ends a row with the outcome it gives for
\* ResponseNotOkError, the row is added to the errors of the result set,
\* nothing else is, and the task goes on to the next row that needs the
\* adapter or to the end of its batch.
C18_ExhaustedIsRowError ==
    [][\A s \in enabled_clients :
          (/\ task[s].state = "awaiting"
           /\ adapter'[s][AwaitedRow(task[s])] = try_match_game("ResponseNotOkError")
           /\ task'[s] # task[s]
           /\ task'[s].state # "cancelled") =>
              /\ HashIds(task'[s].results._errors)
                    = HashIds(task[s].results._errors) \cup {AwaitedRow(task[s])}
              /\ Cardinality(task'[s].results._errors)
                    = Cardinality(task[s].results._errors) + 1
              /\ task'[s].results._successes = task[s].results._successes
              /\ task'[s].state \in {"awaiting", "done"}
              /\ task'[s].state = "awaiting" =>
                    AwaitedPosition(task'[s]) > AwaitedPosition(task[s])
              /\ ~stopped'[s] \/ stopped[s]]_vars

\* a row ended as an error and the task awaits the adapter for a later row
C18_Witness ==
    \E s \in enabled_clients :
        /\ task[s].state = "awaiting"
        /\ task[s].i >= 1
        /\ \E h \in HashIds(task[s].results._errors) :
              adapter[s][h] = try_match_game("ResponseNotOkError")
        /\ ~stopped[s]

\* C19: a request whose url, params (in any order) and body are those of a
\* request that succeeded before on the client returns that payload from
\* the cache: it enters no rate limiter and sends nothing.
C19_IdenticalRequestsCached ==
    req.repeat =>
        /\ req.pc \in {"returned", "idle"}
        /\ net = <<>>
        /\ req.result = {Payload(req.msg)}

\* C20: a response with a 2xx status ends the request with the payload and
\* without a sleep; any other status, unless it is an immediately-stop
\* status, is backed off and the same request is sent again.
C20_BackoffExactlyOnNon2xx ==
    [][/\ (req.pc = "sent" /\ req' # req /\ req'.status \in 200..299) =>
              /\ req'.pc = "returned"
              /\ req'.result = {Payload(req.msg)}
              /\ net' = net
       /\ (req.pc = "sent" /\ req' # req /\ req'.status \notin 200..299
             /\ req'.failure = "status") =>
              /\ req'.pc \in {"backing_off", "raised"}
              /\ req'.pc = "backing_off" => Len(Sleeps') = Len(Sleeps) + 1
       /\ req.pc = "backing_off" =>
              (req'.pc = "sent" /\ net' = Append(net, Event("send", 0, 0, req.msg))
                /\ req'.msg = req.msg)]_vars

\* C21: a failed status and a network error are absorbed alike: either
\* one is backed off while fewer than max_backoffs failures of the call
\* were, either one ends the call with ResponseNotOkError after that, and
\* a call sends its request at most max_backoffs + 1 times.
C21_FailuresShareCounter ==
    [][/\ (req.pc = "sent" /\ req'.failure # "none") =>
              IF Len(Sleeps) = max_backoffs
              THEN req'.pc = "raised" /\ req'.exc = "ResponseNotOkError"
                     /\ net' = net
              ELSE req'.pc = "backing_off" /\ Len(Sleeps') = Len(Sleeps) + 1
                     /\ Sends' = Sends
       /\ Len(Sends') <= max_backoffs + 1
       /\ req'.backoff._backoffs <= max_backoffs]_vars

\* a call ended with ResponseNotOkError after failed statuses and network
\* errors and max_backoffs + 1 attempts
C21_Witness ==
    /\ req.pc = "raised"
    /\ req.exc = "ResponseNotOkError"
    /\ "status" \in req.failed
    /\ req.failed \cap NetworkErrors # {}
    /\ Len(Sends) = max_backoffs + 1

\* the requests that left the choice of headers to the client
OwnHeaders == {n \in DOMAIN sent_headers : ~sent_headers[n].explicit}

\* C22: with spoofing, a bundle is generated at the first request that
\* passes no headers and again only when more than the lifetime has passed
\* since the last generation; every such request is sent with the bundle
\* of its window, so requests of one window carry the same bundle.
\* Without spoofing nothing is generated.
C22_HeaderBundlePerLifetime ==
    /\ \A n \in 2..Len(generations) :
          generations[n].at > generations[n - 1].at + HeaderLifetime
    /\ ~spoof_headers =>
          (generations = <<>>
            /\ \A n \in OwnHeaders : sent_headers[n].headers = "default")
    /\ spoof_headers =>
          \A n \in OwnHeaders :
              /\ sent_headers[n].generation \in DOMAIN generations
              /\ sent_headers[n].headers
                    = generations[sent_headers[n].generation].bundle
              /\ sent_headers[n].at >= generations[sent_headers[n].generation].at
              /\ sent_headers[n].at
                    <= generations[sent_headers[n].generation].at + HeaderLifetime
              /\ (\A m \in OwnHeaders : m >= n) =>
                    generations[1].at = sent_headers[n].at
    /\ \A m \in OwnHeaders : \A n \in OwnHeaders :
          (m < n /\ spoof_headers
            /\ sent_headers[n].at
                  <= generations[sent_headers[m].generation].at + HeaderLifetime) =>
              sent_headers[n].headers = sent_headers[m].headers

\* two requests of one window at different times, and a later window
C22_Witness ==
    /\ spoof_headers
    /\ Len(generations) = 2
    /\ \E m \in OwnHeaders : \E n \in OwnHeaders :
          /\ sent_headers[m].generation = 1
          /\ sent_headers[n].generation = 1
          /\ sent_headers[m].at < sent_headers[n].at

\* the positions of the exact candidates, and of the exact and full ones
ExactAt == {i \in DOMAIN game_matches :
              \E v \in game_matches[i].validation_info : v.exact}

ExactFullAt == {i \in ExactAt :
                  \E v \in game_matches[i].validation_info : full_match(v)}

\* the candidates at the positions K, in their order
Kept(K) == SelectSeq(game_matches, LAMBDA m : m.id \in K)

\* C23: of two or more candidates the reduction keeps the one exact
\* candidate if exactly one is exact; if several are exact, the exact and
\* full ones if there are any and else all exact ones; if none is exact,
\* all candidates. Zero or one candidate is returned unchanged.
C23_FilterMatches ==
    decision # "none" =>
        gmr_matches =
            IF Len(game_matches) <= 1 THEN game_matches
            ELSE IF Cardinality(ExactAt) = 1 THEN Kept(ExactAt)
            ELSE IF Cardinality(ExactAt) > 1
            THEN (IF ExactFullAt # {} THEN Kept(ExactFullAt) ELSE Kept(ExactAt))
            ELSE game_matches

\* three candidates, two of them exact, one of these full: reduced to one
C23_Witness ==
    /\ decision # "none"
    /\ Len(game_matches) = 3
    /\ Cardinality(ExactAt) = 2
    /\ Cardinality(ExactFullAt) = 1
    /\ Len(gmr_matches) = 1

\* C24: the selection prompt is shown for a row only when the reduction
\* left more than one candidate, and then with exactly these candidates.
C24_SelectionOnlyForSeveral ==
    \A n \in DOMAIN prompts :
        prompts[n].callback = "selection" =>
            (Len(gmr_matches) > 1 /\ prompts[n].options = gmr_matches)

\* rows settled with and without the selection prompt
C24_Witness ==
    /\ decision \in {"match", "no_match"}
    /\ Len(game_matches) = 3
    /\ Len(gmr_matches) = 2
    /\ \E n \in DOMAIN prompts : prompts[n].callback = "selection"

\* C25: a single remaining candidate is recorded as the row's match
\* without the confirmation prompt only if it is exact and a full match.
C25_AutoAcceptOnlyExactAndFull ==
    (decision = "match" /\ Len(gmr_matches) = 1 /\ prompts = <<>>) =>
        \E v \in gmr_matches[1].validation_info : v.exact /\ full_match(v)

\* the digits a normalized title ends with, and what stands before them

RECURSIVE FinalNumber(_)
FinalNumber(string) ==
    IF string # <<>> /\ isdigit(string[Len(string)])
    THEN Append(FinalNumber(SubSeq(string, 1, Len(string) - 1)),
                string[Len(string)])
    ELSE <<>>

BeforeFinalNumber(string) ==
    SubSeq(string, 1, Len(string) - Len(FinalNumber(string)))

\* the normalized titles differ, and only in the number they end with
DifferentSequels(t_1, t_2) ==
    /\ FinalNumber(normalize(t_1)) # <<>>
    /\ FinalNumber(normalize(t_2)) # <<>>
    /\ FinalNumber(normalize(t_1)) # FinalNumber(normalize(t_2))
    /\ BeforeFinalNumber(normalize(t_1)) = BeforeFinalNumber(normalize(t_2))

\* C28: titles_equal_fuzzy answers false for two titles whose normalized
\* forms differ only in their final number (unless their parts before the
\* colon are equal, which is not the edit-distance rule), and true for two
\* titles whose normalized forms are equal.
C28_SequelsNotFuzzyEqual ==
    (validated.op = "titles_equal_fuzzy" /\ validated.raised = "none") =>
        /\ (DifferentSequels(excel_game.title, candidate.title)
              /\ ~titles_equal_normalized(fuzzy(excel_game.title),
                                          fuzzy(candidate.title))) =>
              validated.value = {FALSE}
        /\ normalize(excel_game.title) = normalize(candidate.title) =>
              validated.value = {TRUE}

\* C29: titles_equal_fuzzy returns a boolean and does not raise when one
\* of the two titles is empty or a single character.
C29_FuzzyTotalOnShortTitles ==
    (validated.op = "titles_equal_fuzzy"
      /\ (Len(excel_game.title) <= 1 \/ Len(candidate.title) <= 1)) =>
        (validated.raised = "none" /\ validated.value \subseteq BOOLEAN
          /\ validated.value # {})

\* C30: normalize(normalize(s)) = normalize(s) for every string s.
C30_NormalizeIdempotent ==
    validated.op = "normalize" =>
        \A n \in validated.value : normalize(n) = n

\* some candidate platform is the row's platform, ignoring case, or one
\* of its aliases in the table
PlatformListed ==
    \E n \in 1..Len(candidate.platforms) :
        \/ lower(candidate.platforms[n]) = lower(excel_game.platform)
        \/ /\ lower(excel_game.platform) \in DOMAIN PLATFORM_NAMES
           /\ lower(candidate.platforms[n])
                 \in PLATFORM_NAMES[lower(excel_game.platform)]

\* the titles are normalized-equal or fuzzy-equal
TitlesMatch ==
    \/ titles_equal_normalized(excel_game.title, candidate.title)
    \/ titles_equal_fuzzy(excel_game.title, candidate.title).value = {TRUE}

\* C26: validate returns; with titles that are neither normalized-equal
\* nor fuzzy-equal it returns not matched with every flag false, and
\* otherwise matched with exact, platform, date, publisher and developer
\* each set from its own data, false where the candidate has none.
C26_ValidateFlags ==
    validated.op = "validate" =>
        /\ validated.raised = "none"
        /\ \A v \in validated.value :
              IF ~TitlesMatch
              THEN v = ValidationInfo(FALSE, FALSE, FALSE, FALSE, FALSE, FALSE, FALSE)
              ELSE /\ v.matched
                   /\ v.exact = titles_equal_normalized(excel_game.title,
                                                        candidate.title)
                   /\ v.platform_matched = PlatformListed
                   /\ v.date_matched
                        = (excel_game.release_year \in Range(candidate.release_years))
                   /\ v.publisher_matched
                        = (normalize(excel_game.publisher)
                             \in {normalize(c) : c \in Range(candidate.publishers)})
                   /\ v.developer_matched
                        = (normalize(excel_game.developer)
                             \in {normalize(c) : c \in Range(candidate.developers)})

\* C27: verify_platform returns, for every platform of a row and every
\* list of candidates, whether some candidate is the platform ignoring
\* case or one of its aliases.
C27_VerifyPlatformTotal ==
    validated.op = "verify_platform" =>
        (validated.raised = "none" /\ validated.value = {PlatformListed})

\* C31: a call of RateLimiter.request under key k is delayed only by the
\* last dispatch under k (not at all when there was none), and a step
\* changes the last-dispatch time of a key only by a dispatch under it.
C31_LimiterKeysIndependent ==
    [][/\ \A c \in DOMAIN calls :
            (calls[c].pc = "idle" /\ calls'[c].pc # "idle") =>
                /\ calls'[c].key \notin DOMAIN last_calls => calls'[c].pc = "func"
                /\ calls'[c].pc = "sleeping" =>
                      \E sp \in seconds_between_requests, j \in Jitter :
                          calls'[c].next_call = last_calls[calls'[c].key] + sp + j
        /\ \A k \in DOMAIN last_calls' :
            (k \notin DOMAIN last_calls \/ last_calls'[k] # last_calls[k]) =>
                dispatches' = Append(dispatches, [key |-> k, at |-> utcnow])
        /\ DOMAIN last_calls \subseteq DOMAIN last_calls'
      ]_vars

\* a call under one key is dispatched while a call under another key
\* waits for its slot
C31_Witness ==
    /\ Cardinality(DOMAIN last_calls) = 2
    /\ \E c \in DOMAIN calls : \E n \in DOMAIN dispatches :
          /\ calls[c].pc = "sleeping"
          /\ calls[c].next_call > utcnow
          /\ dispatches[n].key # calls[c].key
          /\ dispatches[n].at = utcnow
          /\ last_calls[calls[c].key] < utcnow

\* C32: the rate limiter dispatches at most once per call of request(),
\* before the first send and while no dispatch of the call is under way (a
\* call served from the cache is not dispatched at all); a retry after a
\* backoff is sent without a dispatch of the limiter, leaves the
\* last-dispatch times as they are and follows the sleep of the backoff
\* directly.
C32_LimiterOncePerRequest ==
    [][/\ (req.pc = "backing_off" /\ req'.pc = "sent") =>
              /\ UNCHANGED <<last_calls, dispatches, calls>>
              /\ net[Len(net)].ev = "sleep"
              /\ net' = Append(net, Event("send", 0, 0, req.msg))
       /\ dispatches' # dispatches =>
              /\ req.pc = "limiter"
              /\ net = <<>>
              /\ \A c \in DOMAIN calls : calls[c].pc # "func"
              /\ Len(dispatches') = Len(dispatches) + 1
       /\ req'.pc \in {"sent", "backing_off"} =>
              \E c \in DOMAIN calls : calls'[c].pc = "func"
       /\ Len(dispatches') <= req'.n]_vars

\* the second request of a client was throttled, dispatched once and is
\* sent for the third time
C32_Witness ==
    /\ req.n = 2
    /\ Len(dispatches) = 2
    /\ dispatches[2].at > dispatches[1].at
    /\ dispatches[2].key = dispatches[1].key
    /\ req.pc = "sent"
    /\ Len(SelectSeq(net, LAMBDA e : e.ev = "send")) = 3

\* C33: every call of request() starts with a backoff that has counted no
\* failure and sleeps the initial delay first, whatever the calls before
\* it went through: its first sleep is the initial delay and it ends with
\* ResponseNotOkError only after max_backoffs sleeps of its own.
C33_BackoffPerRequest ==
    [][/\ (req.pc = "idle" /\ req'.pc # "idle") =>
              /\ req'.backoff._backoffs = 0
              /\ req'.backoff.backoff_seconds = initial_backoff
              /\ req'.backoff = ExponentialBackoff
       /\ (req.pc = "sent" /\ req'.pc = "backing_off") =>
              net'[Len(net')].secs = Delay(Len(SelectSeq(net, LAMBDA e : e.ev = "sleep")))
       /\ (req.pc = "sent" /\ req'.exc = "ResponseNotOkError") =>
              Len(SelectSeq(net, LAMBDA e : e.ev = "sleep")) = max_backoffs]_vars

\* the first request of the client used up its retries, and the second
\* one has slept max_backoffs times of its own
C33_Witness ==
    /\ req.n = 2
    /\ immediately_stop_statuses = {}
    /\ cached_responses = EmptyDict
    /\ req.pc = "sent"
    /\ req.backoff._backoffs = max_backoffs
    /\ Len(SelectSeq(net, LAMBDA e : e.ev = "sleep")) = max_backoffs

\* C34: the cache changes only when a response with status 200 arrives,
\* by the entry of that request; a call that ends with an error leaves it
\* as it was, and a call whose hash has no entry is sent to the network.
C34_OnlyOkCached ==
    [][/\ cached_responses' # cached_responses =>
              /\ req.pc = "sent"
              /\ req'.pc = "returned"
              /\ req'.status = 200
              /\ cached_responses'
                    = DictSet(cached_responses, req.req_hash, Payload(req.msg))
       /\ req'.pc = "raised" => cached_responses' = cached_responses
       /\ (req.pc = "idle" /\ req'.pc # "idle"
             /\ req'.req_hash \notin DOMAIN cached_responses) =>
              (req'.pc = "sent" /\ net'[Len(net')].ev = "send")]_vars

\* the second call of a client went to the network and ended with an
\* error like the first, and the cache is empty
C34_Witness ==
    /\ req.n = 2
    /\ req.pc = "raised"
    /\ req.exc \in {"ResponseNotOkError", "ImmediatelyStopStatusError"}
    /\ net # <<>>
    /\ cached_responses = EmptyDict

\* C35: a call is served from the cache only with the payload of its own
\* url, params and body, that is if a request with these succeeded before.
C35_CacheEntriesNotShared ==
    (req.pc = "returned" /\ net = <<>>) =>
        (req.result = {Payload(req.msg)} /\ Logical(req.msg) \in succeeded)

\* the rows of the task's batch from the awaited row to the batch's end
RestOfBatch(t) ==
    PySlice(games, AwaitedPosition(t), t.original_offset + batch_size)

\* the error entries a step added to the result set
AddedErrors(before, after) == after._errors \ before._errors

\* C36: when try_match_game raises an immediate stop at the awaited row j of
\* a batch, the error entries the step adds to the batch's result set are
\* those of the ledger rows j..batchEnd of that batch, one entry per row and
\* in row order.
C36_StopRecordsRestOfBatch ==
    [][\A s \in enabled_clients :
          (task[s].state = "awaiting" /\ task'[s].state = "done"
             /\ adapter'[s][AwaitedRow(task[s])] = "stop") =>
             AddedErrors(task[s].results, task'[s].results) =
                {[idx |-> task[s].results._index + n - 1,
                  gmr |-> GameMatchResult(RestOfBatch(task[s])[n], "stop")] :
                     n \in 1..Len(RestOfBatch(task[s]))}]_vars

\* the rows of its batch a task in its loop has handled so far
RowsHandled(t) == AwaitedPosition(t) - t.original_offset

StoredEntries(rs) == rs._successes \cup rs._errors \cup rs._skipped

\* C37: while a task awaits the adapter for a row of its batch, its result
\* set holds one entry, under success, error or skipped, for every row of
\* the batch handled before that row, the rows found in the index of
\* existing results included.
C37_HandledRowsStored ==
    \A s \in enabled_clients :
        task[s].state = "awaiting" =>
            Cardinality(StoredEntries(task[s].results)) = RowsHandled(task[s])

\* the positions of the source's tasks in match_games' list
TasksOf(list, source) == {n \in DOMAIN list : list[n] = source}

\* C38: a source never has two tasks in match_games' list; the task of a
\* source's next batch is created in the step that finds the previous task
\* done and writes its output files, at the offset one batch_size higher;
\* and a task of a later batch finds the source's client in
\* __running_clients when it starts, so it constructs none of its own.
C38_OneTaskPerSource ==
    [][\A s \in enabled_clients :
          /\ Cardinality(TasksOf(tasks', s)) <= 1
          /\ (run' = run /\ task'[s].state = "pending" /\ task'[s] # task[s]) =>
                /\ task[s].state = "done"
                /\ outputs'[s] = WriteOutputs(outputs[s], task[s].results)
                /\ task'[s].original_offset = task[s].original_offset + batch_size
                /\ s \in running_clients'
          /\ (task[s].state = "pending" /\ task[s].original_offset > 0
                /\ task'[s].state \notin {"pending", "cancelled"}) =>
                s \in running_clients]_vars

\* both sources are in their second batch, each with its one task in the
\* list and its client kept from the first batch
C38_Witness ==
    \A s \in enabled_clients :
        /\ enabled_clients = Sources
        /\ task[s].state = "awaiting"
        /\ task[s].original_offset = batch_size
        /\ Cardinality(TasksOf(tasks, s)) = 1
        /\ s \in running_clients
        /\ outputs[s]["matches"] # NoFiles

\* the source's task failed: it ended with an exception
SourceFailed(s) == task[s].state \in {"failed", "removed"}

\* the source's batches were started up to the last one below the row
\* count, and the last one's output has been handled
AllBatchesStarted(s) ==
    /\ task[s].state = "stored"
    /\ task[s].original_offset < Len(games)
    /\ task[s].original_offset + batch_size >= Len(games)

\* match_games has ended by itself, not by a cancellation of the run
Ended == main \in {"returned", "raised"}

\* C39: when every adapter call ends, match_games ends, and when it has
\* ended every enabled source whose task did not fail has had its batches
\* started up to the last offset below the row count.
C39_TerminatesWithAllBatches ==
    /\ <>(main # "running")
    /\ [](Ended => \A s \in enabled_clients : ~SourceFailed(s) => AllBatchesStarted(s))

\* the exceptions try_match_game lets through
Escaping == {"ImmediatelyStopStatusError", "NotImplementedError"}

\* the exception should_skip or match_game ended the call with, if any
CauseOf(call) ==
    IF call.should_skip \notin {"True", "False"} THEN call.should_skip
    ELSE IF call.should_skip = "True" THEN "none"
    ELSE call.match_game.raised

\* C40: a call of try_match_game gives (True, None, None) when should_skip
\* holds, (True, candidates, None) when match_game returned candidates, and
\* (False, None, cause) when should_skip or match_game raised an exception
\* other than ImmediatelyStopStatusError and NotImplementedError; these two
\* are the only exceptions that leave it.
C40_TryMatchGameOutcomes ==
    tried.called =>
        /\ tried.should_skip = "True" => tried.result = Gave(TRUE, {}, {})
        /\ (tried.should_skip = "False" /\ CauseOf(tried) = "none") =>
              tried.result = Gave(TRUE, tried.match_game.value, {})
        /\ CauseOf(tried) \in Escaping => tried.result = Escaped(CauseOf(tried))
        /\ CauseOf(tried) \notin Escaping \cup {"none"} =>
              tried.result = Gave(FALSE, {}, {CauseOf(tried)})
        /\ tried.result.raised \in Escaping \cup {"none"}
        /\ tried.result.raised = "none" =>
              \E t \in tried.result.value :
                 \/ t[1] /\ t[3] = {}
                 \/ ~t[1] /\ t[2] = {} /\ t[3] # {}

\* should_skip raised an exception and the row was recorded as an error
C40_Witness ==
    /\ tried.called
    /\ tried.should_skip = "Exception"
    /\ tried.result = Gave(FALSE, {}, {"Exception"})
    /\ decision = "error"

====
